---- MODULE Spec2Model ----
(***************************************************************************)
(* The asset reconciliation sensor of dagster                              *)
(* (dagster/_core/definitions/asset_reconciliation_sensor.py): its cursor, *)
(* the root and parent-materialization detectors, the allowable time       *)
(* window, the freshness execution periods, the closure over the asset     *)
(* graph, the run-request batcher, and the backfills it reads.             *)
(*                                                                         *)
(* Times are integers.  One unit is datetime.timedelta.resolution; a day   *)
(* is scaled down to Day units.  Optional values: a missing storage id is  *)
(* NoStorageId, a missing partition key is NoPartition, a missing time is  *)
(* NoTime.                                                                 *)
(***************************************************************************)
EXTENDS Integers, Sequences, FiniteSets, TLC

VARIABLES
    graph,          \* name of the asset graph (repository definition) in use
    asset_graph,    \* the ExternalAssetGraph reconcile builds from the repository
    now,            \* the clock read by pendulum.now("UTC")
    last_storage_id,\* highest storage id handed out by the event log
    latest,         \* asset partition -> its latest materialization record
    runs,           \* runs launched for the sensor's run requests, by run id
    backfills,      \* the backfill store, by backfill id
    stored_cursor,  \* context.cursor: the serialized cursor kept by the caller
    tick,           \* what the sensor tick that has just ended computed and
                    \* returned; NoTick once anything else has happened
    call            \* the last direct call of a pure function, with its result

vars == <<graph, asset_graph, now, last_storage_id, latest, runs, backfills, stored_cursor,
          tick, call>>

----------------------------------------------------------------------------
(* Bounds of the model *)

MaxStorageId == 5
MaxRuns == 2
MaxBackfills == 1
MaxTime == 40
MaxDecided == 3

(* Program constants *)

\* datetime.timedelta(days=1), scaled
Day == 20
\* datetime.timedelta.resolution
Resolution == 1
\* the advance of the clock between two readings
ClockStep == Day

NoStorageId == 0
NoPartition == -1
NoTime == -1
NoRun == 0

----------------------------------------------------------------------------
(* Generic helpers *)

SetMax(S) == CHOOSE x \in S : \A y \in S : y <= x
SetMin(S) == CHOOSE x \in S : \A y \in S : x <= y
Max2(a, b) == IF a >= b THEN a ELSE b

----------------------------------------------------------------------------
(* Partitions definitions.  A time-window definition has equal windows of  *)
(* `width` units from `start`; partition key p names the window            *)
(* [start + p*width, start + (p+1)*width).  A static definition has the    *)
(* keys 0 .. n-1.                                                          *)

Unpartitioned == [kind |-> "none", start |-> 0, width |-> 0, n |-> 0]
TimeWindowPartitionsDefinition(start, width) ==
    [kind |-> "time", start |-> start, width |-> width, n |-> 0]
StaticPartitionsDefinition(n) == [kind |-> "static", start |-> 0, width |-> 0, n |-> n]

DailyPartitionsDefinition == TimeWindowPartitionsDefinition(0, Day)

TimeWindow(start, end) == [start |-> start, end |-> end]
NoTimeWindow == TimeWindow(NoTime, NoTime)

time_window_for_partition_key(partitions_def, partition_key) ==
    TimeWindow(partitions_def.start + partition_key * partitions_def.width,
               partitions_def.start + (partition_key + 1) * partitions_def.width)

\* the number of windows that have ended by current_time
NumPartitions(partitions_def, current_time) ==
    IF partitions_def.kind = "static" THEN partitions_def.n
    ELSE IF partitions_def.kind = "time" /\ current_time >= partitions_def.start
         THEN (current_time - partitions_def.start) \div partitions_def.width
         ELSE 0

get_partition_keys(partitions_def, current_time) ==
    0 .. (NumPartitions(partitions_def, current_time) - 1)

get_first_partition_window(partitions_def, current_time) ==
    IF NumPartitions(partitions_def, current_time) = 0 THEN NoTimeWindow
    ELSE time_window_for_partition_key(partitions_def, 0)

get_last_partition_window(partitions_def, current_time) ==
    IF NumPartitions(partitions_def, current_time) = 0 THEN NoTimeWindow
    ELSE time_window_for_partition_key(
             partitions_def, NumPartitions(partitions_def, current_time) - 1)

get_partition_keys_in_time_window(partitions_def, time_window, current_time) ==
    {p \in get_partition_keys(partitions_def, current_time) :
        LET w == time_window_for_partition_key(partitions_def, p)
        IN  w.start >= time_window.start /\ w.end <= time_window.end}

----------------------------------------------------------------------------
(* Partition-time-window calculus *)

\* the window without the resolution step added to its start
allowable_time_window_without_resolution(partitions_def, evaluation_time) ==
    LET latest_partition_window ==
            get_last_partition_window(partitions_def, evaluation_time)
        earliest_partition_window ==
            get_first_partition_window(partitions_def, evaluation_time)
    IN  IF latest_partition_window = NoTimeWindow THEN NoTimeWindow
        ELSE TimeWindow(
                 Max2(earliest_partition_window.start,
                      latest_partition_window.start - Day),
                 latest_partition_window.end)

\* a window that starts a day before the latest partition whatever the
\* first partition is
allowable_time_window_from_latest(partitions_def, evaluation_time) ==
    LET latest_partition_window ==
            get_last_partition_window(partitions_def, evaluation_time)
    IN  IF latest_partition_window = NoTimeWindow THEN NoTimeWindow
        ELSE TimeWindow(latest_partition_window.start - Day + Resolution,
                        latest_partition_window.end)

allowable_time_window_for_partitions_def(partitions_def, evaluation_time) ==
    LET latest_partition_window ==
            get_last_partition_window(partitions_def, evaluation_time)
        earliest_partition_window ==
            get_first_partition_window(partitions_def, evaluation_time)
    IN  IF latest_partition_window = NoTimeWindow THEN NoTimeWindow
        ELSE IF earliest_partition_window = NoTimeWindow THEN NoTimeWindow
        ELSE TimeWindow(
                 Max2(earliest_partition_window.start,
                      latest_partition_window.start - Day + Resolution),
                 latest_partition_window.end)

----------------------------------------------------------------------------
(* Freshness policies: a maximum lag with an optional cron schedule.  The  *)
(* cron schedule is a period and an offset (ticks at offset + i*period);   *)
(* cron_period = 0 is a policy without cron schedule.                      *)

FreshnessPolicy(maximum_lag, cron_period, cron_offset) ==
    [maximum_lag |-> maximum_lag, cron_period |-> cron_period,
     cron_offset |-> cron_offset]

----------------------------------------------------------------------------
(* The asset graphs the sensor is run on.  `keys` are the materializable   *)
(* assets, `source_asset_keys` the source assets, `upstream` the parents   *)
(* of each key, `asset_selection` the resolved target selection of the     *)
(* sensor.  `manual` are the assets that users materialize by hand and     *)
(* `backfill_targets` the target subsets users launch asset backfills on.  *)

\* An AssetKey is its path: a sequence of components, each a string, that
\* is a sequence of characters.
AssetKeyPartitionKey(asset_key, partition_key) ==
    [asset_key |-> asset_key, partition_key |-> partition_key]

\* a -> d, b -> d, d -> e
DiamondGraph ==
    [keys |-> {<< <<"a">> >>, << <<"b">> >>, << <<"d">> >>, << <<"e">> >>},
     source_asset_keys |-> {},
     upstream |-> (<< <<"a">> >> :> {} @@ << <<"b">> >> :> {} @@ << <<"d">> >> :> {<< <<"a">> >>, << <<"b">> >>} @@ << <<"e">> >> :> {<< <<"d">> >>}),
     partitions_defs_by_key |-> [k \in {<< <<"a">> >>, << <<"b">> >>, << <<"d">> >>, << <<"e">> >>} |-> Unpartitioned],
     freshness_policies_by_key |-> [k \in {<< <<"a">> >>, << <<"b">> >>, << <<"d">> >>, << <<"e">> >>} |-> {}],
     required_multi_asset_sets_by_key |-> [k \in {<< <<"a">> >>, << <<"b">> >>, << <<"d">> >>, << <<"e">> >>} |-> {}],
     asset_selection |-> {<< <<"d">> >>, << <<"e">> >>},
     manual |-> {<< <<"a">> >>, << <<"b">> >>},
     backfill_targets |-> {}]

\* the graph of the docstring of build_asset_reconciliation_sensor
DocstringGraph ==
    [keys |-> {<< <<"a">> >>, << <<"b">> >>, << <<"c">> >>, << <<"d">> >>, << <<"e">> >>, << <<"f">> >>},
     source_asset_keys |-> {},
     upstream |-> (<< <<"a">> >> :> {} @@ << <<"b">> >> :> {} @@ << <<"c">> >> :> {} @@ << <<"d">> >> :> {<< <<"a">> >>, << <<"b">> >>}
                   @@ << <<"e">> >> :> {<< <<"b">> >>, << <<"c">> >>} @@ << <<"f">> >> :> {<< <<"d">> >>, << <<"e">> >>}),
     partitions_defs_by_key |-> [k \in {<< <<"a">> >>, << <<"b">> >>, << <<"c">> >>, << <<"d">> >>, << <<"e">> >>, << <<"f">> >>} |-> Unpartitioned],
     freshness_policies_by_key |-> [k \in {<< <<"a">> >>, << <<"b">> >>, << <<"c">> >>, << <<"d">> >>, << <<"e">> >>, << <<"f">> >>} |-> {}],
     required_multi_asset_sets_by_key |-> [k \in {<< <<"a">> >>, << <<"b">> >>, << <<"c">> >>, << <<"d">> >>, << <<"e">> >>, << <<"f">> >>} |-> {}],
     asset_selection |-> {<< <<"d">> >>, << <<"e">> >>, << <<"f">> >>},
     manual |-> {<< <<"a">> >>, << <<"b">> >>, << <<"c">> >>},
     backfill_targets |-> {}]

\* a source asset, a root of the selection and its child; backfills on the
\* root or on the child
RootGraph ==
    [keys |-> {<< <<"r">> >>, << <<"c">> >>},
     source_asset_keys |-> {<< <<"src">> >>},
     upstream |-> (<< <<"r">> >> :> {<< <<"src">> >>} @@ << <<"c">> >> :> {<< <<"r">> >>}),
     partitions_defs_by_key |-> [k \in {<< <<"r">> >>, << <<"c">> >>} |-> Unpartitioned],
     freshness_policies_by_key |-> [k \in {<< <<"r">> >>, << <<"c">> >>} |-> {}],
     required_multi_asset_sets_by_key |-> [k \in {<< <<"r">> >>, << <<"c">> >>} |-> {}],
     asset_selection |-> {<< <<"r">> >>, << <<"c">> >>},
     manual |-> {<< <<"r">> >>},
     backfill_targets |-> {{AssetKeyPartitionKey(<< <<"r">> >>, NoPartition)},
                           {AssetKeyPartitionKey(<< <<"c">> >>, NoPartition)}}]

\* a daily-partitioned root, its daily-partitioned child, an unpartitioned
\* grandchild
PartitionedGraph ==
    [keys |-> {<< <<"p">> >>, << <<"q">> >>, << <<"u">> >>},
     source_asset_keys |-> {},
     upstream |-> (<< <<"p">> >> :> {} @@ << <<"q">> >> :> {<< <<"p">> >>} @@ << <<"u">> >> :> {<< <<"q">> >>}),
     partitions_defs_by_key |-> (<< <<"p">> >> :> DailyPartitionsDefinition
                                 @@ << <<"q">> >> :> DailyPartitionsDefinition
                                 @@ << <<"u">> >> :> Unpartitioned),
     freshness_policies_by_key |-> [k \in {<< <<"p">> >>, << <<"q">> >>, << <<"u">> >>} |-> {}],
     required_multi_asset_sets_by_key |-> [k \in {<< <<"p">> >>, << <<"q">> >>, << <<"u">> >>} |-> {}],
     asset_selection |-> {<< <<"p">> >>, << <<"q">> >>, << <<"u">> >>},
     manual |-> {<< <<"p">> >>},
     backfill_targets |-> {}]

\* a root and its child; the child has a freshness policy without cron
\* schedule; a backfill on the child
FreshnessGraph ==
    [keys |-> {<< <<"x">> >>, << <<"y">> >>},
     source_asset_keys |-> {},
     upstream |-> (<< <<"x">> >> :> {} @@ << <<"y">> >> :> {<< <<"x">> >>}),
     partitions_defs_by_key |-> [k \in {<< <<"x">> >>, << <<"y">> >>} |-> Unpartitioned],
     freshness_policies_by_key |-> (<< <<"x">> >> :> {} @@ << <<"y">> >> :> {FreshnessPolicy(Day, 0, 0)}),
     required_multi_asset_sets_by_key |-> [k \in {<< <<"x">> >>, << <<"y">> >>} |-> {}],
     asset_selection |-> {<< <<"x">> >>, << <<"y">> >>},
     manual |-> {},
     backfill_targets |-> {{AssetKeyPartitionKey(<< <<"y">> >>, NoPartition)}}]

\* a root that users materialize, its child with a freshness policy without
\* cron schedule, and a grandchild outside the selection
DownstreamGraph ==
    [keys |-> {<< <<"x">> >>, << <<"y">> >>, << <<"w">> >>},
     source_asset_keys |-> {},
     upstream |-> (<< <<"x">> >> :> {} @@ << <<"y">> >> :> {<< <<"x">> >>} @@ << <<"w">> >> :> {<< <<"y">> >>}),
     partitions_defs_by_key |-> [k \in {<< <<"x">> >>, << <<"y">> >>, << <<"w">> >>} |-> Unpartitioned],
     freshness_policies_by_key |-> (<< <<"x">> >> :> {} @@ << <<"y">> >> :> {FreshnessPolicy(Day, 0, 0)} @@ << <<"w">> >> :> {}),
     required_multi_asset_sets_by_key |-> [k \in {<< <<"x">> >>, << <<"y">> >>, << <<"w">> >>} |-> {}],
     asset_selection |-> {<< <<"x">> >>, << <<"y">> >>},
     manual |-> {<< <<"x">> >>},
     backfill_targets |-> {}]

\* a root with two children whose freshness policies have cron schedules:
\* the ticks of the schedules are one time unit apart, so that the required
\* execution periods of the two policies overlap
PoliciesGraph ==
    [keys |-> {<< <<"x">> >>, << <<"y">> >>, << <<"z">> >>},
     source_asset_keys |-> {},
     upstream |-> (<< <<"x">> >> :> {} @@ << <<"y">> >> :> {<< <<"x">> >>} @@ << <<"z">> >> :> {<< <<"x">> >>}),
     partitions_defs_by_key |-> [k \in {<< <<"x">> >>, << <<"y">> >>, << <<"z">> >>} |-> Unpartitioned],
     freshness_policies_by_key |-> (<< <<"x">> >> :> {}
                                    @@ << <<"y">> >> :> {FreshnessPolicy(2, Day, 6)}
                                    @@ << <<"z">> >> :> {FreshnessPolicy(2, Day, 7)}),
     required_multi_asset_sets_by_key |-> [k \in {<< <<"x">> >>, << <<"y">> >>, << <<"z">> >>} |-> {}],
     asset_selection |-> {<< <<"x">> >>, << <<"y">> >>, << <<"z">> >>},
     manual |-> {},
     backfill_targets |-> {}]

\* a root with four partitions a day, its child with daily partitions, and
\* a root whose windows are one resolution step shorter than a day
WindowsGraph ==
    [keys |-> {<< <<"h">> >>, << <<"g">> >>, << <<"s">> >>},
     source_asset_keys |-> {},
     upstream |-> (<< <<"h">> >> :> {} @@ << <<"g">> >> :> {<< <<"h">> >>} @@ << <<"s">> >> :> {}),
     partitions_defs_by_key |-> (<< <<"h">> >> :> TimeWindowPartitionsDefinition(0, Day \div 4)
                                 @@ << <<"g">> >> :> DailyPartitionsDefinition
                                 @@ << <<"s">> >> :> TimeWindowPartitionsDefinition(0, Day - Resolution)),
     freshness_policies_by_key |-> [k \in {<< <<"h">> >>, << <<"g">> >>, << <<"s">> >>} |-> {}],
     required_multi_asset_sets_by_key |-> [k \in {<< <<"h">> >>, << <<"g">> >>, << <<"s">> >>} |-> {}],
     asset_selection |-> {<< <<"h">> >>, << <<"g">> >>, << <<"s">> >>},
     manual |-> {<< <<"h">> >>},
     backfill_targets |-> {}]

\* roots whose keys have two components, without partitions, with static and
\* with daily partitions, and a child of the static root
NestedGraph ==
    [keys |-> {<< <<"n">>, <<"a">> >>, << <<"n">>, <<"b">> >>, << <<"t">> >>,
               << <<"n">>, <<"d">> >>, << <<"t">>, <<"c">> >>},
     source_asset_keys |-> {},
     upstream |-> (<< <<"n">>, <<"a">> >> :> {} @@ << <<"n">>, <<"b">> >> :> {}
                   @@ << <<"t">> >> :> {} @@ << <<"n">>, <<"d">> >> :> {}
                   @@ << <<"t">>, <<"c">> >> :> {<< <<"t">> >>}),
     partitions_defs_by_key |-> (<< <<"n">>, <<"a">> >> :> Unpartitioned
                                 @@ << <<"n">>, <<"b">> >> :> Unpartitioned
                                 @@ << <<"t">> >> :> StaticPartitionsDefinition(2)
                                 @@ << <<"n">>, <<"d">> >> :> DailyPartitionsDefinition
                                 @@ << <<"t">>, <<"c">> >> :> StaticPartitionsDefinition(2)),
     freshness_policies_by_key |-> [k \in {<< <<"n">>, <<"a">> >>, << <<"n">>, <<"b">> >>, << <<"t">> >>, << <<"n">>, <<"d">> >>, << <<"t">>, <<"c">> >>} |-> {}],
     required_multi_asset_sets_by_key |-> [k \in {<< <<"n">>, <<"a">> >>, << <<"n">>, <<"b">> >>, << <<"t">> >>, << <<"n">>, <<"d">> >>, << <<"t">>, <<"c">> >>} |-> {}],
     asset_selection |-> {<< <<"n">>, <<"a">> >>, << <<"n">>, <<"b">> >>, << <<"t">> >>,
                          << <<"n">>, <<"d">> >>, << <<"t">>, <<"c">> >>},
     manual |-> {<< <<"t">> >>},
     backfill_targets |-> {}]

\* a root with two static partitions and its child with the same partitions
StaticGraph ==
    [keys |-> {<< <<"t">> >>, << <<"c">> >>},
     source_asset_keys |-> {},
     upstream |-> (<< <<"t">> >> :> {} @@ << <<"c">> >> :> {<< <<"t">> >>}),
     partitions_defs_by_key |-> [k \in {<< <<"t">> >>, << <<"c">> >>} |-> StaticPartitionsDefinition(2)],
     freshness_policies_by_key |-> [k \in {<< <<"t">> >>, << <<"c">> >>} |-> {}],
     required_multi_asset_sets_by_key |-> [k \in {<< <<"t">> >>, << <<"c">> >>} |-> {}],
     asset_selection |-> {<< <<"t">> >>, << <<"c">> >>},
     manual |-> {<< <<"t">> >>},
     backfill_targets |-> {}]

\* a root that users materialize and a multi-asset with two outputs, both
\* children of the root and both in the selection
GroupGraph ==
    [keys |-> {<< <<"r">> >>, << <<"m">> >>, << <<"n">> >>},
     source_asset_keys |-> {},
     upstream |-> (<< <<"r">> >> :> {} @@ << <<"m">> >> :> {<< <<"r">> >>} @@ << <<"n">> >> :> {<< <<"r">> >>}),
     partitions_defs_by_key |-> [k \in {<< <<"r">> >>, << <<"m">> >>, << <<"n">> >>} |-> Unpartitioned],
     freshness_policies_by_key |-> [k \in {<< <<"r">> >>, << <<"m">> >>, << <<"n">> >>} |-> {}],
     required_multi_asset_sets_by_key |-> (<< <<"r">> >> :> {}
                                           @@ << <<"m">> >> :> {<< <<"m">> >>, << <<"n">> >>}
                                           @@ << <<"n">> >> :> {<< <<"m">> >>, << <<"n">> >>}),
     asset_selection |-> {<< <<"m">> >>, << <<"n">> >>},
     manual |-> {<< <<"r">> >>},
     backfill_targets |-> {{AssetKeyPartitionKey(<< <<"m">> >>, NoPartition)}}]

\* a multi-asset with two outputs, one with a freshness policy and in the
\* selection, the other outside the selection
SiblingGraph ==
    [keys |-> {<< <<"m">> >>, << <<"n">> >>},
     source_asset_keys |-> {},
     upstream |-> (<< <<"m">> >> :> {} @@ << <<"n">> >> :> {}),
     partitions_defs_by_key |-> [k \in {<< <<"m">> >>, << <<"n">> >>} |-> Unpartitioned],
     freshness_policies_by_key |-> (<< <<"m">> >> :> {FreshnessPolicy(Day, 0, 0)} @@ << <<"n">> >> :> {}),
     required_multi_asset_sets_by_key |-> [k \in {<< <<"m">> >>, << <<"n">> >>} |-> {<< <<"m">> >>, << <<"n">> >>}],
     asset_selection |-> {<< <<"m">> >>},
     manual |-> {},
     backfill_targets |-> {}]

\* a parent outside the selection and its child with a freshness policy
\* with a cron schedule
OutsideGraph ==
    [keys |-> {<< <<"x">> >>, << <<"y">> >>},
     source_asset_keys |-> {},
     upstream |-> (<< <<"x">> >> :> {} @@ << <<"y">> >> :> {<< <<"x">> >>}),
     partitions_defs_by_key |-> [k \in {<< <<"x">> >>, << <<"y">> >>} |-> Unpartitioned],
     freshness_policies_by_key |-> (<< <<"x">> >> :> {} @@ << <<"y">> >> :> {FreshnessPolicy(2, Day, 6)}),
     required_multi_asset_sets_by_key |-> [k \in {<< <<"x">> >>, << <<"y">> >>} |-> {}],
     asset_selection |-> {<< <<"y">> >>},
     manual |-> {<< <<"x">> >>},
     backfill_targets |-> {}]

Graphs == ("diamond" :> DiamondGraph @@ "docstring" :> DocstringGraph
           @@ "root" :> RootGraph @@ "partitioned" :> PartitionedGraph
           @@ "freshness" :> FreshnessGraph @@ "policies" :> PoliciesGraph
           @@ "windows" :> WindowsGraph @@ "nested" :> NestedGraph
           @@ "static" :> StaticGraph @@ "downstream" :> DownstreamGraph
           @@ "group" :> GroupGraph @@ "sibling" :> SiblingGraph
           @@ "outside" :> OutsideGraph)


----------------------------------------------------------------------------
(* Queries on the asset graph *)

is_source(asset_key) == asset_key \in asset_graph.source_asset_keys

get_parents(asset_key) ==
    IF is_source(asset_key) THEN {} ELSE asset_graph.upstream[asset_key]

get_children(asset_key) ==
    {k \in asset_graph.keys : asset_key \in asset_graph.upstream[k]}

has_non_source_parents(asset_key) ==
    \E k \in get_parents(asset_key) : ~is_source(k)

get_partitions_def(asset_key) ==
    IF is_source(asset_key) THEN Unpartitioned
    ELSE asset_graph.partitions_defs_by_key[asset_key]

is_partitioned(asset_key) == get_partitions_def(asset_key).kind # "none"

have_same_partitioning(asset_key1, asset_key2) ==
    get_partitions_def(asset_key1) = get_partitions_def(asset_key2)

get_required_multi_asset_keys(asset_key) ==
    asset_graph.required_multi_asset_sets_by_key[asset_key]

\* the partition keys of an asset (NoPartition alone when unpartitioned)
PartitionKeysOf(asset_key, current_time) ==
    IF is_partitioned(asset_key)
    THEN get_partition_keys(get_partitions_def(asset_key), current_time)
    ELSE {NoPartition}

\* the partition keys of to_key that from_key's partition maps to: all of
\* them from an unpartitioned asset, the overlapping windows between time
\* windows, the same key between equal definitions
MappedPartitionKeys(from_key, partition_key, to_key) ==
    LET from_def == get_partitions_def(from_key)
        to_def == get_partitions_def(to_key)
        all == PartitionKeysOf(to_key, now)
    IN  IF to_def.kind = "none" THEN {NoPartition}
        ELSE IF partition_key = NoPartition THEN all
        ELSE IF from_def.kind = "time" /\ to_def.kind = "time"
        THEN LET w == time_window_for_partition_key(from_def, partition_key)
             IN  {p \in all :
                    LET v == time_window_for_partition_key(to_def, p)
                    IN  v.start < w.end /\ w.start < v.end}
        ELSE IF from_def = to_def THEN {partition_key} \cap all
        ELSE all

get_children_partitions(asset_key, partition_key) ==
    UNION {{AssetKeyPartitionKey(child, p) :
                p \in MappedPartitionKeys(asset_key, partition_key, child)} :
           child \in get_children(asset_key)}

get_parents_partitions(asset_key, partition_key) ==
    UNION {{AssetKeyPartitionKey(parent, p) :
                p \in MappedPartitionKeys(asset_key, partition_key, parent)} :
           parent \in get_parents(asset_key)}

\* the level of an asset in toposort_asset_keys(): sources and assets
\* without parents first
RECURSIVE ToposortLevel(_)
ToposortLevel(asset_key) ==
    IF get_parents(asset_key) = {} THEN 0
    ELSE 1 + SetMax({ToposortLevel(k) : k \in get_parents(asset_key)})

\* the policies of the asset and of every asset downstream of it
RECURSIVE get_downstream_freshness_policies(_)
get_downstream_freshness_policies(asset_key) ==
    asset_graph.freshness_policies_by_key[asset_key]
    \cup UNION {get_downstream_freshness_policies(k) : k \in get_children(asset_key)}

\* target_asset_selection.resolve(asset_graph)
target_asset_keys == asset_graph.asset_selection

\* the selection without its upstream layer: a sensor that watches only the
\* selected assets, and so never sees a materialization of an unselected parent
target_asset_keys_without_upstream == target_asset_keys

\* target_asset_selection.upstream(depth=1).resolve(asset_graph)
target_parent_asset_keys ==
    target_asset_keys \cup UNION {get_parents(k) : k \in target_asset_keys}

\* (target_asset_selection & AssetSelection.all().sources()).resolve(asset_graph)
target_root_asset_keys ==
    {k \in target_asset_keys : ~has_non_source_parents(k)}

\* every asset partition the graph can have while the clock is within MaxTime
AllAssetPartitions ==
    UNION {{AssetKeyPartitionKey(k, p) : p \in PartitionKeysOf(k, MaxTime)} :
           k \in asset_graph.keys}

----------------------------------------------------------------------------
(* The event log and the instance queryer.  `latest` keeps, per asset      *)
(* partition, its latest materialization record; every query the sensor    *)
(* makes is a function of these.                                           *)

NoRecord ==
    [storage_id |-> NoStorageId, run_id |-> NoRun, partition_key |-> NoPartition,
     data_time |-> NoTime]

\* the asset partitions a query for asset_partition covers: a query without
\* partition key covers every partition of the asset
RecordsOf(asset_partition) ==
    {latest[ap] : ap \in {x \in DOMAIN latest :
        /\ x.asset_key = asset_partition.asset_key
        /\ \/ asset_partition.partition_key = NoPartition
           \/ x.partition_key = asset_partition.partition_key}}

get_latest_materialization_record(asset_partition, after_cursor) ==
    LET found == {rec \in RecordsOf(asset_partition) :
                    /\ rec.storage_id # NoStorageId
                    /\ rec.storage_id > after_cursor}
    IN  IF found = {} THEN NoRecord
        ELSE CHOOSE rec \in found : \A o \in found : o.storage_id <= rec.storage_id

get_materialized_partitions(asset_key, after_cursor) ==
    {rec.partition_key :
        rec \in {x \in RecordsOf(AssetKeyPartitionKey(asset_key, NoPartition)) :
                    x.storage_id # NoStorageId /\ x.storage_id > after_cursor}}

\* a queryer that finds no asset planned in any run
is_asset_planned_for_no_run(run_id, asset) == FALSE

is_asset_planned_for_run(run_id, asset) ==
    /\ run_id \in DOMAIN runs
    /\ runs[run_id].partition_key = asset.partition_key
    /\ asset.asset_key \in runs[run_id].asset_selection

\* An asset partition is unreconciled if it has never been materialized, if
\* one of its parents has been materialized more recently than it has, or
\* if one of its parents is unreconciled.  Source assets are reconciled.
RECURSIVE is_reconciled(_)
is_reconciled(asset_partition) ==
    IF is_source(asset_partition.asset_key) THEN TRUE
    ELSE
    LET latest_materialization_record ==
            get_latest_materialization_record(asset_partition, NoStorageId)
    IN  /\ latest_materialization_record # NoRecord
        /\ \A parent \in get_parents_partitions(asset_partition.asset_key,
                                                asset_partition.partition_key) :
              \/ is_source(parent.asset_key)
              \/ /\ get_latest_materialization_record(
                        parent, latest_materialization_record.storage_id) = NoRecord
                 /\ is_reconciled(parent)

----------------------------------------------------------------------------
(* Run requests *)

RunRequest(asset_selection, partition_key) ==
    [asset_selection |-> asset_selection, partition_key |-> partition_key]

----------------------------------------------------------------------------
(* AssetReconciliationCursor *)

EmptyMapping == [k \in {} |-> {}]

AssetReconciliationCursor(latest_storage_id, root_asset_keys, root_partitions) ==
    [latest_storage_id |-> latest_storage_id,
     materialized_or_requested_root_asset_keys |-> root_asset_keys,
     materialized_or_requested_root_partitions_by_asset_key |-> root_partitions]

empty == AssetReconciliationCursor(NoStorageId, {}, EmptyMapping)

\* what a failed check (check.invariant, check.failed) leaves instead of a value
CheckError == [error |-> "CheckError"]

\* a cursor that remembers no root asset
never_previously_materialized_or_requested(cursor, asset_key) == FALSE

was_previously_materialized_or_requested(cursor, asset_key) ==
    asset_key \in cursor.materialized_or_requested_root_asset_keys

\* mapping.get(asset_key, {})
GetOrEmpty(mapping, asset_key) ==
    IF asset_key \in DOMAIN mapping THEN mapping[asset_key] ELSE {}

get_never_requested_never_materialized_partitions(cursor, asset_key, evaluation_time) ==
    LET partitions_def == get_partitions_def(asset_key)
        materialized_or_requested_subset ==
            GetOrEmpty(cursor.materialized_or_requested_root_partitions_by_asset_key,
                       asset_key)
    IN  IF partitions_def.kind = "time"
        THEN LET allowable_time_window ==
                     allowable_time_window_for_partitions_def(
                         partitions_def, evaluation_time)
             IN  IF allowable_time_window = NoTimeWindow THEN {}
                 ELSE {partition_key \in get_partition_keys_in_time_window(
                                             partitions_def, allowable_time_window,
                                             evaluation_time) :
                          partition_key \notin materialized_or_requested_subset}
        ELSE get_partition_keys(partitions_def, evaluation_time)
                 \ materialized_or_requested_subset

\* a cursor update that takes every requested root for an unpartitioned one
UpdatedCursorWithoutPartitions(cursor, latest_storage_id, run_requests, newly_materialized_root_asset_keys, newly_materialized_root_partitions_by_asset_key) ==
    AssetReconciliationCursor(
        IF latest_storage_id # NoStorageId THEN latest_storage_id
        ELSE cursor.latest_storage_id,
        cursor.materialized_or_requested_root_asset_keys
        \cup newly_materialized_root_asset_keys
        \cup {k \in UNION {rr.asset_selection : rr \in run_requests} :
                 ~has_non_source_parents(k)},
        cursor.materialized_or_requested_root_partitions_by_asset_key)

\* the cursor with_updates returns once its check has passed
UpdatedCursor(cursor, latest_storage_id, run_requests, newly_materialized_root_asset_keys, newly_materialized_root_partitions_by_asset_key) ==
    LET root_requests ==
            {<<rr, k>> \in run_requests \X UNION {rr.asset_selection : rr \in run_requests} :
                k \in rr.asset_selection /\ ~has_non_source_parents(k)}
        requested_root_partitions_by_asset_key ==
            [k \in {x[2] : x \in {y \in root_requests : y[1].partition_key # NoPartition}}
                |-> {x[1].partition_key :
                        x \in {y \in root_requests :
                                 y[2] = k /\ y[1].partition_key # NoPartition}}]
        requested_non_partitioned_root_assets ==
            {x[2] : x \in {y \in root_requests : y[1].partition_key = NoPartition}}
        prior == cursor.materialized_or_requested_root_partitions_by_asset_key
        updated == DOMAIN newly_materialized_root_partitions_by_asset_key
                   \cup DOMAIN requested_root_partitions_by_asset_key
        result_materialized_or_requested_root_partitions_by_asset_key ==
            [k \in DOMAIN prior \cup updated |->
                IF k \in updated
                THEN GetOrEmpty(prior, k)
                     \cup GetOrEmpty(newly_materialized_root_partitions_by_asset_key, k)
                     \cup GetOrEmpty(requested_root_partitions_by_asset_key, k)
                ELSE prior[k]]
        result_materialized_or_requested_root_asset_keys ==
            cursor.materialized_or_requested_root_asset_keys
            \cup newly_materialized_root_asset_keys
            \cup requested_non_partitioned_root_assets
    IN  AssetReconciliationCursor(
            IF latest_storage_id # NoStorageId THEN latest_storage_id
            ELSE cursor.latest_storage_id,
            result_materialized_or_requested_root_asset_keys,
            result_materialized_or_requested_root_partitions_by_asset_key)

\* with_updates without its check on the storage ids
with_updates_unchecked(cursor, latest_storage_id, run_requests, newly_materialized_root_asset_keys, newly_materialized_root_partitions_by_asset_key) ==
    UpdatedCursor(cursor, latest_storage_id, run_requests,
                  newly_materialized_root_asset_keys,
                  newly_materialized_root_partitions_by_asset_key)

\* a cursor that records the roots of this tick only
with_updates_forgetting(cursor, latest_storage_id, run_requests, newly_materialized_root_asset_keys, newly_materialized_root_partitions_by_asset_key) ==
    UpdatedCursor(AssetReconciliationCursor(cursor.latest_storage_id, {}, EmptyMapping),
                  latest_storage_id, run_requests,
                  newly_materialized_root_asset_keys,
                  newly_materialized_root_partitions_by_asset_key)

with_updates(cursor, latest_storage_id, run_requests, newly_materialized_root_asset_keys, newly_materialized_root_partitions_by_asset_key) ==
    IF /\ latest_storage_id # NoStorageId
       /\ cursor.latest_storage_id # NoStorageId
       /\ ~(latest_storage_id >= cursor.latest_storage_id)
    THEN CheckError
    ELSE UpdatedCursor(cursor, latest_storage_id, run_requests,
                       newly_materialized_root_asset_keys,
                       newly_materialized_root_partitions_by_asset_key)

----------------------------------------------------------------------------
(* The backfill store *)

\* an asset backfill keeps its target subset in serialized_asset_backfill_data;
\* a job backfill keeps partition names only and has no target subset
target_subset(backfill) == backfill.target_subset

\* the backfills of a status that still have a target unit to materialize
get_backfills_with_units_left(status) ==
    {backfills[i] :
        i \in {j \in DOMAIN backfills :
                  /\ backfills[j].status = status
                  /\ \/ ~backfills[j].is_asset_backfill
                     \/ \E ap \in backfills[j].target_subset :
                           get_latest_materialization_record(ap, NoStorageId) = NoRecord}}

get_backfills(status) ==
    {backfills[i] : i \in {j \in DOMAIN backfills : backfills[j].status = status}}

\* the target subsets of the asset backfills of every status
get_every_backfill_target_asset_graph_subset ==
    UNION {target_subset(backfills[i]) :
              i \in {j \in DOMAIN backfills : backfills[j].is_asset_backfill}}

get_active_backfill_target_asset_graph_subset ==
    LET asset_backfills ==
            {backfill \in get_backfills("REQUESTED") : backfill.is_asset_backfill}
    IN  UNION {target_subset(asset_backfill) : asset_backfill \in asset_backfills}

\* PartitionBackfill(...): a job backfill names its partitions, an asset
\* backfill carries its target subset
PartitionBackfill(status, target, is_asset_backfill) ==
    [status |-> status,
     is_asset_backfill |-> is_asset_backfill,
     target_subset |-> IF is_asset_backfill THEN target ELSE {},
     partition_names |->
         IF is_asset_backfill THEN {} ELSE {ap.partition_key : ap \in target}]

with_status(backfill, status) == [backfill EXCEPT !.status = status]

\* instance.update_backfill(backfill)
update_backfill(store, backfill_id, backfill) ==
    [store EXCEPT ![backfill_id] = backfill]

\* the statuses of a run of a backfill that is not terminal yet
CancelableRunStatuses == {"NOT_STARTED", "QUEUED", "STARTED"}

\* a cancel mutation that cancels a backfill of any status
cancel_partition_backfill_of_any_status(store, unit_status, backfill_id) ==
    IF backfill_id \in DOMAIN store
    THEN [typename |-> "CancelBackfillSuccess",
          store |-> update_backfill(store, backfill_id,
                                    with_status(store[backfill_id], "CANCELED"))]
    ELSE [typename |-> "PythonError", store |-> store]

\* a cancel mutation that lets the runs in flight finish first
cancel_partition_backfill_after_units(store, unit_status, backfill_id) ==
    IF backfill_id \in DOMAIN store /\ store[backfill_id].status = "REQUESTED"
    THEN [typename |-> "CancelBackfillSuccess",
          store |-> IF \E u \in DOMAIN unit_status : unit_status[u] \in CancelableRunStatuses
                    THEN store
                    ELSE update_backfill(store, backfill_id,
                                         with_status(store[backfill_id], "CANCELED"))]
    ELSE [typename |-> "PythonError", store |-> store]

\* the cancelPartitionBackfill mutation: unit_status is the status of the
\* backfill's run of each of its units
cancel_partition_backfill(store, unit_status, backfill_id) ==
    IF backfill_id \in DOMAIN store /\ store[backfill_id].status = "REQUESTED"
    THEN [typename |-> "CancelBackfillSuccess",
          store |-> update_backfill(store, backfill_id,
                                    with_status(store[backfill_id], "CANCELED"))]
    ELSE [typename |-> "PythonError", store |-> store]

\* a resume mutation that launches the target again as a new backfill
resume_partition_backfill_as_new_backfill(store, backfill_id) ==
    IF backfill_id \in DOMAIN store /\ store[backfill_id].status = "FAILED"
    THEN [typename |-> "ResumeBackfillSuccess",
          store |-> Append(store, with_status(store[backfill_id], "REQUESTED"))]
    ELSE [typename |-> "PythonError", store |-> store]

\* the resumePartitionBackfill mutation
resume_partition_backfill(store, backfill_id) ==
    IF backfill_id \in DOMAIN store /\ store[backfill_id].status = "FAILED"
    THEN [typename |-> "ResumeBackfillSuccess",
          store |-> update_backfill(store, backfill_id,
                                    with_status(store[backfill_id], "REQUESTED"))]
    ELSE [typename |-> "PythonError", store |-> store]

\* the partitionBackfillOrError query
partitionBackfillOrError(store, unit_status, backfill_id) ==
    [status |-> store[backfill_id].status,
     partitionNames |-> store[backfill_id].partition_names,
     numCancelable |->
         Cardinality({u \in DOMAIN unit_status : unit_status[u] \in CancelableRunStatuses})]

\* hasCancelPermission and hasResumePermission of the backfill query
backfill_permissions(read_only) ==
    [hasCancelPermission |-> ~read_only, hasResumePermission |-> ~read_only]

\* mutations that ask for the permission on launch only
execute_backfill_mutation_checking_launch_only(read_only, mutation, store, unit_status, backfill_id, launched) ==
    IF mutation = "launchPartitionBackfill"
    THEN IF read_only THEN [typename |-> "UnauthorizedError", store |-> store]
         ELSE [typename |-> "LaunchBackfillSuccess", store |-> Append(store, launched)]
    ELSE IF mutation = "cancelPartitionBackfill"
    THEN cancel_partition_backfill(store, unit_status, backfill_id)
    ELSE resume_partition_backfill(store, backfill_id)

\* a backfill mutation run in a context: a read-only context refuses it
\* before anything is read or written
execute_backfill_mutation(read_only, mutation, store, unit_status, backfill_id, launched) ==
    IF read_only THEN [typename |-> "UnauthorizedError", store |-> store]
    ELSE IF mutation = "launchPartitionBackfill"
    THEN [typename |-> "LaunchBackfillSuccess", store |-> Append(store, launched)]
    ELSE IF mutation = "cancelPartitionBackfill"
    THEN cancel_partition_backfill(store, unit_status, backfill_id)
    ELSE resume_partition_backfill(store, backfill_id)

----------------------------------------------------------------------------
(* Root and propagation staleness detectors *)

\* the children of one materialized partition, planned in its run or not
ChildrenInSelection(asset_key, record) ==
    {child \in get_children_partitions(asset_key, record.partition_key) :
        child.asset_key \in target_asset_keys}

\* the children of one materialized partition that the latest-record pass adds
ChildrenNotPlannedInRun(asset_key, record) ==
    {child \in get_children_partitions(asset_key, record.partition_key) :
        /\ child.asset_key \in target_asset_keys
        /\ ~is_asset_planned_for_run(record.run_id, child)}

candidates_unit_within_allowable_time_window(candidates_unit, evaluation_time) ==
    IF candidates_unit = {} THEN TRUE
    ELSE
    LET representative_candidate == CHOOSE c \in candidates_unit : TRUE
        partitions_def == get_partitions_def(representative_candidate.asset_key)
        partition_key == representative_candidate.partition_key
    IN  IF partitions_def.kind # "time" \/ partition_key = NoPartition THEN TRUE
        ELSE
        LET allowable_time_window ==
                allowable_time_window_for_partitions_def(partitions_def, evaluation_time)
            candidate_partition_window ==
                time_window_for_partition_key(partitions_def, partition_key)
        IN  IF allowable_time_window = NoTimeWindow THEN FALSE
            ELSE /\ candidate_partition_window.start >= allowable_time_window.start
                 /\ candidate_partition_window.end <= allowable_time_window.end

\* determine_asset_partitions_to_reconcile's quick filter on stale candidates
can_reconcile_fn(candidate, evaluation_time) ==
    IF candidate.partition_key = NoPartition THEN TRUE
    ELSE candidates_unit_within_allowable_time_window({candidate}, evaluation_time)

\* the children that the pass over the partitions materialized since the
\* cursor adds, for a partitioned parent
ChildrenOfPartitions(asset_key, partition_keys, latest_storage_id, evaluation_time) ==
    UNION {
        {child \in get_children_partitions(asset_key, partition_key) :
            /\ child.asset_key \in target_asset_keys
            /\ can_reconcile_fn(child, evaluation_time)
            /\ \/ partition_key # child.partition_key
               \/ ~is_asset_planned_for_run(
                      get_latest_materialization_record(
                          AssetKeyPartitionKey(asset_key, partition_key),
                          latest_storage_id).run_id,
                      child)} :
        partition_key \in partition_keys}

ChildrenOfMaterializedPartitions(asset_key, latest_storage_id, evaluation_time) ==
    ChildrenOfPartitions(asset_key, get_materialized_partitions(asset_key, latest_storage_id),
                         latest_storage_id, evaluation_time)

find_parent_materialized_asset_partitions(latest_storage_id, evaluation_time) ==
    LET scanned == {asset_key \in target_parent_asset_keys :
                      /\ ~is_source(asset_key)
                      /\ get_latest_materialization_record(
                             AssetKeyPartitionKey(asset_key, NoPartition),
                             latest_storage_id) # NoRecord}
        latest_record(asset_key) ==
            get_latest_materialization_record(
                AssetKeyPartitionKey(asset_key, NoPartition), latest_storage_id)
        result_asset_partitions ==
            UNION {ChildrenNotPlannedInRun(asset_key, latest_record(asset_key))
                   \cup (IF is_partitioned(asset_key)
                         THEN ChildrenOfMaterializedPartitions(
                                  asset_key, latest_storage_id, evaluation_time)
                         ELSE {}) :
                   asset_key \in scanned}
        result_latest_storage_id ==
            SetMax({latest_storage_id}
                   \cup {latest_record(asset_key).storage_id : asset_key \in scanned})
    IN  <<result_asset_partitions, result_latest_storage_id>>

\* the roots that were never materialized, whatever the cursor has recorded
find_never_materialized_root_asset_partitions(cursor, evaluation_time) ==
    LET never_materialized ==
            {ap \in UNION {{AssetKeyPartitionKey(asset_key, partition_key) :
                               partition_key \in PartitionKeysOf(asset_key, evaluation_time)} :
                           asset_key \in target_root_asset_keys} :
                get_latest_materialization_record(ap, NoStorageId) = NoRecord}
    IN  <<never_materialized, {}, EmptyMapping>>

\* a detector that looks no root up in the event log
find_never_requested_root_asset_partitions(cursor, evaluation_time) ==
    <<UNION {IF is_partitioned(asset_key)
             THEN {AssetKeyPartitionKey(asset_key, partition_key) :
                      partition_key \in
                          get_never_requested_never_materialized_partitions(
                              cursor, asset_key, evaluation_time)}
             ELSE IF ~was_previously_materialized_or_requested(cursor, asset_key)
                  THEN {AssetKeyPartitionKey(asset_key, NoPartition)}
                  ELSE {} :
             asset_key \in target_root_asset_keys},
      {}, EmptyMapping>>

find_never_materialized_or_requested_root_asset_partitions(cursor, evaluation_time) ==
    LET unseen ==
            UNION {IF is_partitioned(asset_key)
                   THEN {AssetKeyPartitionKey(asset_key, partition_key) :
                            partition_key \in
                                get_never_requested_never_materialized_partitions(
                                    cursor, asset_key, evaluation_time)}
                   ELSE IF ~was_previously_materialized_or_requested(cursor, asset_key)
                        THEN {AssetKeyPartitionKey(asset_key, NoPartition)}
                        ELSE {} :
                   asset_key \in target_root_asset_keys}
        materialized ==
            {ap \in unseen :
                get_latest_materialization_record(ap, NoStorageId) # NoRecord}
        never_materialized_or_requested == unseen \ materialized
        newly_materialized_root_asset_keys ==
            {ap.asset_key : ap \in {x \in materialized : ~is_partitioned(x.asset_key)}}
        partitioned == {ap \in materialized : is_partitioned(ap.asset_key)}
        newly_materialized_root_partitions_by_asset_key ==
            [k \in {ap.asset_key : ap \in partitioned} |->
                {ap.partition_key : ap \in {x \in partitioned : x.asset_key = k}}]
    IN  <<never_materialized_or_requested,
          newly_materialized_root_asset_keys,
          newly_materialized_root_partitions_by_asset_key>>

----------------------------------------------------------------------------
(* Graph closure *)

\* the parents are reconciled already: none may be reconciled in the same tick
parents_are_reconciled(candidate, to_reconcile) ==
    \A parent \in get_parents_partitions(candidate.asset_key, candidate.partition_key) :
        is_reconciled(parent)

parents_will_be_reconciled(candidate, to_reconcile) ==
    \A parent \in get_parents_partitions(candidate.asset_key, candidate.partition_key) :
        \/ /\ parent \in to_reconcile
           /\ have_same_partitioning(parent.asset_key, candidate.asset_key)
           /\ parent.partition_key = candidate.partition_key
        \/ is_reconciled(parent)

\* should_reconcile without its condition on the parents
should_reconcile_whatever_the_parents(candidates_unit, to_reconcile, eventual_asset_partitions_to_reconcile_for_freshness, backfill_target_asset_graph_subset, evaluation_time) ==
    IF ~candidates_unit_within_allowable_time_window(candidates_unit, evaluation_time)
    THEN FALSE
    ELSE IF \E candidate \in candidates_unit :
               \/ candidate \in eventual_asset_partitions_to_reconcile_for_freshness
               \/ candidate \in backfill_target_asset_graph_subset
               \/ candidate.asset_key \notin target_asset_keys
    THEN FALSE
    ELSE \E candidate \in candidates_unit : ~is_reconciled(candidate)

\* should_reconcile with the exclusion of the backfills' targets only
should_reconcile_outside_backfills(candidates_unit, to_reconcile, eventual_asset_partitions_to_reconcile_for_freshness, backfill_target_asset_graph_subset, evaluation_time) ==
    /\ \A candidate \in candidates_unit :
          candidate \notin backfill_target_asset_graph_subset
    /\ \A candidate \in candidates_unit :
          parents_will_be_reconciled(candidate, to_reconcile)
    /\ \E candidate \in candidates_unit : ~is_reconciled(candidate)

\* a predicate that leaves the allowable time window to the detector
should_reconcile_within_any_window(candidates_unit, to_reconcile, eventual_asset_partitions_to_reconcile_for_freshness, backfill_target_asset_graph_subset, evaluation_time) ==
    IF \E candidate \in candidates_unit :
           \/ candidate \in eventual_asset_partitions_to_reconcile_for_freshness
           \/ candidate \in backfill_target_asset_graph_subset
           \/ candidate.asset_key \notin target_asset_keys
    THEN FALSE
    ELSE /\ \A candidate \in candidates_unit :
                parents_will_be_reconciled(candidate, to_reconcile)
         /\ \E candidate \in candidates_unit : ~is_reconciled(candidate)

should_reconcile(candidates_unit, to_reconcile, eventual_asset_partitions_to_reconcile_for_freshness, backfill_target_asset_graph_subset, evaluation_time) ==
    IF ~candidates_unit_within_allowable_time_window(candidates_unit, evaluation_time)
    THEN FALSE
    ELSE IF \E candidate \in candidates_unit :
               \/ candidate \in eventual_asset_partitions_to_reconcile_for_freshness
               \/ candidate \in backfill_target_asset_graph_subset
               \/ candidate.asset_key \notin target_asset_keys
    THEN FALSE
    ELSE /\ \A candidate \in candidates_unit :
                parents_will_be_reconciled(candidate, to_reconcile)
         /\ \E candidate \in candidates_unit : ~is_reconciled(candidate)

\* ToposortedPriorityQueue: the asset partitions that are dequeued together
\* with asset_partition (its required multi-asset neighbours) and their level
QueueItemUnit(asset_partition) ==
    {AssetKeyPartitionKey(k, asset_partition.partition_key) :
        k \in get_required_multi_asset_keys(asset_partition.asset_key)
              \cup {asset_partition.asset_key}}

QueueItemLevel(asset_partition) ==
    SetMax({ToposortLevel(ap.asset_key) : ap \in QueueItemUnit(asset_partition)})

RECURSIVE bfs_filter_asset_partitions(_, _, _, _, _, _)
bfs_filter_asset_partitions(queue, all_nodes, result, eventual, backfill_subset, evaluation_time) ==
    IF queue = {} THEN result
    ELSE
    LET item == CHOOSE ap \in queue :
                    \A o \in queue : QueueItemLevel(ap) <= QueueItemLevel(o)
        candidates_unit == QueueItemUnit(item)
    IN  IF should_reconcile(candidates_unit, result, eventual, backfill_subset,
                            evaluation_time)
        THEN LET children ==
                     UNION {get_children_partitions(c.asset_key, c.partition_key) :
                            c \in candidates_unit}
                 new == children \ all_nodes
             IN  bfs_filter_asset_partitions(
                     (queue \ {item}) \cup new, all_nodes \cup new,
                     result \cup candidates_unit, eventual, backfill_subset,
                     evaluation_time)
        ELSE bfs_filter_asset_partitions(
                 queue \ {item}, all_nodes, result, eventual, backfill_subset,
                 evaluation_time)

\* the closure from the seeds of the two detectors, and what the tick keeps
\* of the detectors' results
ReconcileClosure(roots, stale, eventual_asset_partitions_to_reconcile_for_freshness, backfill_target_asset_graph_subset, evaluation_time) ==
    [to_reconcile |->
         bfs_filter_asset_partitions(
             roots[1] \cup stale[1], roots[1] \cup stale[1], {},
             eventual_asset_partitions_to_reconcile_for_freshness,
             backfill_target_asset_graph_subset, evaluation_time),
     newly_materialized_root_asset_keys |-> roots[2],
     newly_materialized_root_partitions_by_asset_key |-> roots[3],
     latest_storage_id |-> stale[2],
     never_materialized_or_requested_roots |-> roots[1],
     stale_candidates |-> stale[1],
     backfill_target_asset_graph_subset |-> backfill_target_asset_graph_subset]

determine_asset_partitions_to_reconcile(cursor, eventual_asset_partitions_to_reconcile_for_freshness, evaluation_time) ==
    ReconcileClosure(
        find_never_materialized_or_requested_root_asset_partitions(
            cursor, evaluation_time),
        find_parent_materialized_asset_partitions(
            cursor.latest_storage_id, evaluation_time),
        eventual_asset_partitions_to_reconcile_for_freshness,
        get_active_backfill_target_asset_graph_subset, evaluation_time)

----------------------------------------------------------------------------
(* Freshness-policy scheduler *)

Period(start, end) == [start |-> start, end |-> end]
NoPeriod == Period(NoTime, NoTime)

\* `if execution_period:` a period is a timedelta, which is false when it is
\* of length zero
PeriodIsTruthy(period) == period # NoPeriod /\ period.start # period.end

\* cron_string_iterator: the first tick of the schedule at or after t
NextCronTick(policy, t) ==
    CHOOSE tk \in t .. (t + policy.cron_period - 1) :
        (tk - policy.cron_offset) % policy.cron_period = 0

\* while True: tick = next(tick_iterator); the walk from tick tk on, until
\* a tick requires data after the effective data time
RECURSIVE CronWalk(_, _, _)
CronWalk(freshness_policy, effective_data_time, tk) ==
    LET required_data_time == tk - freshness_policy.maximum_lag
    IN  IF effective_data_time < required_data_time
        THEN Period(required_data_time, tk)
        ELSE CronWalk(freshness_policy, effective_data_time,
                      NextCronTick(freshness_policy, tk + 1))

\* a walk that stops at its first tick
get_execution_period_at_first_tick(freshness_policy, effective_data_time, evaluation_time) ==
    IF effective_data_time = NoTime THEN Period(evaluation_time, evaluation_time)
    ELSE IF freshness_policy.cron_period # 0
    THEN LET tk == NextCronTick(freshness_policy, evaluation_time)
         IN  Period(tk - freshness_policy.maximum_lag, tk)
    ELSE Period(effective_data_time + (9 * freshness_policy.maximum_lag) \div 10,
                Max2(effective_data_time + freshness_policy.maximum_lag,
                     evaluation_time))

get_execution_period_for_policy(freshness_policy, effective_data_time, evaluation_time) ==
    IF effective_data_time = NoTime THEN Period(evaluation_time, evaluation_time)
    ELSE IF freshness_policy.cron_period # 0
    THEN CronWalk(freshness_policy, effective_data_time,
                  NextCronTick(freshness_policy, evaluation_time))
    ELSE Period(effective_data_time + (9 * freshness_policy.maximum_lag) \div 10,
                Max2(effective_data_time + freshness_policy.maximum_lag,
                     evaluation_time))

\* a fold that passes over a period that starts after the merged period
\* ends and goes on with the periods after it
RECURSIVE MergePeriodsPastGaps(_, _)
MergePeriodsPastGaps(periods, merged_period) ==
    IF periods = {} THEN merged_period
    ELSE
    LET period == CHOOSE x \in periods :
                     \A o \in periods :
                        x.end < o.end \/ (x.end = o.end /\ x.start <= o.start)
    IN  IF merged_period = NoPeriod
        THEN MergePeriodsPastGaps(periods \ {period}, period)
        ELSE IF period.start <= merged_period.end
        THEN MergePeriodsPastGaps(periods \ {period},
                          Period(Max2(period.start, merged_period.start), period.end))
        ELSE MergePeriodsPastGaps(periods \ {period}, merged_period)

\* the periods in the order of sorted(..., key=period.end), merged from the
\* front on
RECURSIVE MergePeriods(_, _)
MergePeriods(periods, merged_period) ==
    IF periods = {} THEN merged_period
    ELSE
    LET period == CHOOSE x \in periods :
                     \A o \in periods :
                        x.end < o.end \/ (x.end = o.end /\ x.start <= o.start)
    IN  IF merged_period = NoPeriod
        THEN MergePeriods(periods \ {period}, period)
        ELSE IF period.start <= merged_period.end
        THEN MergePeriods(periods \ {period},
                          Period(Max2(period.start, merged_period.start), period.end))
        ELSE merged_period

ExecutionPeriods(policies, effective_data_time, evaluation_time) ==
    {get_execution_period_for_policy(policy, effective_data_time, evaluation_time) :
        policy \in policies}

\* the merge as the union of all periods
get_execution_period_for_policies_union(policies, effective_data_time, evaluation_time) ==
    LET periods == ExecutionPeriods(policies, effective_data_time, evaluation_time)
    IN  Period(SetMin({p.start : p \in periods}), SetMax({p.end : p \in periods}))

get_execution_period_for_policies(policies, effective_data_time, evaluation_time) ==
    MergePeriods(ExecutionPeriods(policies, effective_data_time, evaluation_time),
                 NoPeriod)

\* max(filter(None, times), default=None)
MaxTimeOrNone(times) == SetMax(times \cup {NoTime})

\* a pass that selects a key while its expected data time is behind the
\* start of its execution period
can_execute_while_behind(execution_period, expected_data_time, evaluation_time) ==
    /\ execution_period # NoPeriod
    /\ execution_period.start <= evaluation_time
    /\ expected_data_time < execution_period.start

\* elif execution_period is not None and execution_period.start <=
\* evaluation_time and expected_data_time is not None and expected_data_time
\* >= execution_period.start
can_execute_now(execution_period, expected_data_time, evaluation_time) ==
    /\ execution_period # NoPeriod
    /\ execution_period.start <= evaluation_time
    /\ expected_data_time # NoTime
    /\ expected_data_time >= execution_period.start

\* a freshness pass that selects a key without its required neighbors
required_neighbors_left_out(key) == {}

\* for required_key in asset_graph.get_required_multi_asset_keys(key):
\* all required neighbors will be updated on the same tick
required_neighbors(key) ==
    {AssetKeyPartitionKey(required_key, NoPartition) :
        required_key \in get_required_multi_asset_keys(key)}

\* What the freshness pass decides for one key.  data_times gives, per key,
\* the current, in-progress and ignored-failure data times of the resolver;
\* acc carries to_materialize, eventually_materialize and
\* expected_data_time_by_key (NoTime where no expected time is recorded).
FreshnessStep(key, acc, data_times, evaluation_time) ==
    IF is_source(key) \/ get_downstream_freshness_policies(key) = {} THEN acc
    ELSE
    LET current_data_time == data_times[key].current
        parent_times ==
            {acc.expected_data_time_by_key[k] :
                k \in {x \in get_parents(key) :
                         /\ x \in DOMAIN acc.expected_data_time_by_key
                         /\ acc.expected_data_time_by_key[x] # NoTime}}
        expected_data_time ==
            IF parent_times = {} THEN evaluation_time ELSE SetMin(parent_times)
        effective_data_time ==
            MaxTimeOrNone({current_data_time, data_times[key].in_progress,
                           data_times[key].failed})
        execution_period ==
            IF key \in target_asset_keys
            THEN get_execution_period_for_policies(
                     get_downstream_freshness_policies(key), effective_data_time,
                     evaluation_time)
            ELSE NoPeriod
        eventually_materialize ==
            IF key \in target_asset_keys /\ PeriodIsTruthy(execution_period)
            THEN acc.eventually_materialize \cup {AssetKeyPartitionKey(key, NoPartition)}
            ELSE acc.eventually_materialize
        asset_key_partition_key == AssetKeyPartitionKey(key, NoPartition)
        with_time(t) ==
            [k \in DOMAIN acc.expected_data_time_by_key \cup {key} |->
                IF k = key THEN t ELSE acc.expected_data_time_by_key[k]]
    IN  IF asset_key_partition_key \in acc.to_materialize
        THEN [to_materialize |-> acc.to_materialize,
              eventually_materialize |-> eventually_materialize,
              expected_data_time_by_key |-> with_time(expected_data_time)]
        ELSE IF can_execute_now(execution_period, expected_data_time, evaluation_time)
        THEN [to_materialize |->
                  acc.to_materialize \cup {asset_key_partition_key}
                  \cup required_neighbors(key),
              eventually_materialize |-> eventually_materialize,
              expected_data_time_by_key |-> with_time(expected_data_time)]
        ELSE [to_materialize |-> acc.to_materialize,
              eventually_materialize |-> eventually_materialize,
              expected_data_time_by_key |-> with_time(current_data_time)]

\* for level in toposort_asset_keys(): for key in level
RECURSIVE FreshnessFold(_, _, _, _)
FreshnessFold(keys, acc, data_times, evaluation_time) ==
    IF keys = {} THEN acc
    ELSE
    LET key == CHOOSE k \in keys : \A o \in keys : ToposortLevel(k) <= ToposortLevel(o)
    IN  FreshnessFold(keys \ {key},
                      FreshnessStep(key, acc, data_times, evaluation_time),
                      data_times, evaluation_time)

\* the pass over all keys: to_materialize, eventually_materialize and
\* expected_data_time_by_key at its end
FreshnessPass(data_times, evaluation_time) ==
    FreshnessFold(asset_graph.keys \cup asset_graph.source_asset_keys,
                  [to_materialize |-> {}, eventually_materialize |-> {},
                   expected_data_time_by_key |-> EmptyMapping],
                  data_times, evaluation_time)

determine_asset_partitions_to_reconcile_for_freshness(data_times, evaluation_time) ==
    LET acc == FreshnessPass(data_times, evaluation_time)
    IN  <<acc.to_materialize, acc.eventually_materialize>>

----------------------------------------------------------------------------
(* The data time resolver: the data time of an asset is the time of the    *)
(* oldest root data its latest materialization has incorporated.           *)

get_current_data_time(key) ==
    get_latest_materialization_record(
        AssetKeyPartitionKey(key, NoPartition), NoStorageId).data_time

\* the data time a materialization of key at time t incorporates
DataTimeAt(key, t) ==
    IF ~has_non_source_parents(key) THEN t
    ELSE LET parent_times ==
                 {get_current_data_time(k) :
                     k \in {x \in get_parents(key) : ~is_source(x)}}
         IN  IF NoTime \in parent_times THEN NoTime ELSE SetMin(parent_times)

\* the data time key gets once run has materialized all of its selection
RECURSIVE DataTimeAfterRun(_, _)
DataTimeAfterRun(run, key) ==
    IF key \notin run.asset_selection THEN get_current_data_time(key)
    ELSE IF ~has_non_source_parents(key) THEN run.start_time
    ELSE LET parent_times ==
                 {DataTimeAfterRun(run, k) :
                     k \in {x \in get_parents(key) : ~is_source(x)}}
         IN  IF NoTime \in parent_times THEN NoTime ELSE SetMin(parent_times)

RunsOf(key, status) ==
    {i \in DOMAIN runs : runs[i].status = status /\ key \in runs[i].asset_selection}

get_in_progress_data_time(key, evaluation_time) ==
    IF RunsOf(key, "STARTED") = {} THEN NoTime
    ELSE DataTimeAfterRun(runs[SetMax(RunsOf(key, "STARTED"))], key)

get_ignored_failure_data_time(key) ==
    LET mine == {i \in DOMAIN runs : key \in runs[i].asset_selection}
    IN  IF mine # {} /\ runs[SetMax(mine)].status = "FAILURE"
        THEN DataTimeAfterRun(runs[SetMax(mine)], key)
        ELSE get_current_data_time(key)

CachingDataTimeResolver(evaluation_time) ==
    [key \in asset_graph.keys |->
        [current |-> get_current_data_time(key),
         in_progress |-> get_in_progress_data_time(key, evaluation_time),
         failed |-> get_ignored_failure_data_time(key)]]

----------------------------------------------------------------------------
(* Run-request batcher and the tick *)

\* the (partitions_def, partition_key) groups of the asset partitions
RunRequestGroups(asset_partitions) ==
    {<<get_partitions_def(ap.asset_key), ap.partition_key>> : ap \in asset_partitions}

\* check.failed("Partition key provided for unpartitioned asset")
build_run_requests_check_failed(asset_partitions) ==
    \E g \in RunRequestGroups(asset_partitions) :
        g[2] # NoPartition /\ g[1].kind = "none"

\* a batcher that groups the asset partitions by partition key alone
build_run_requests_by_partition_key(asset_partitions) ==
    {RunRequest({ap.asset_key : ap \in {x \in asset_partitions : x.partition_key = p}}, p) :
        p \in {ap.partition_key : ap \in asset_partitions}}

\* one request per group; its partition key travels in its partition tags
build_run_requests(asset_partitions) ==
    {RunRequest(
         {ap.asset_key :
             ap \in {x \in asset_partitions :
                       /\ get_partitions_def(x.asset_key) = g[1]
                       /\ x.partition_key = g[2]}},
         g[2]) : g \in RunRequestGroups(asset_partitions)}

\* what reconcile returns and, for the record, what it computed on the way
ReconcileResult(cursor, freshness, decided) ==
    LET asset_partitions == decided.to_reconcile \cup freshness[1]
        failed == build_run_requests_check_failed(asset_partitions)
        run_requests == IF failed THEN {} ELSE build_run_requests(asset_partitions)
        updated_cursor ==
            IF failed THEN CheckError
            ELSE with_updates(
                     cursor, decided.latest_storage_id, run_requests,
                     decided.newly_materialized_root_asset_keys,
                     decided.newly_materialized_root_partitions_by_asset_key)
    IN  [ran |-> FALSE, was_quiet |-> FALSE, was_requesting |-> FALSE,
         evaluation_time |-> NoTime,
         error |-> updated_cursor = CheckError,
         run_requests |-> IF updated_cursor = CheckError THEN {} ELSE run_requests,
         updated_cursor |-> IF updated_cursor = CheckError THEN cursor
                            ELSE updated_cursor,
         cursor |-> cursor,
         to_reconcile |-> decided.to_reconcile,
         to_reconcile_for_freshness |-> freshness[1],
         eventual_for_freshness |-> freshness[2],
         never_materialized_or_requested_roots |->
             decided.never_materialized_or_requested_roots,
         stale_candidates |-> decided.stale_candidates,
         backfill_target_asset_graph_subset |->
             decided.backfill_target_asset_graph_subset]

\* the closure pass, given the result of the freshness pass, and the batching
ReconcileAfterFreshness(cursor, freshness, current_time) ==
    ReconcileResult(
        cursor, freshness,
        determine_asset_partitions_to_reconcile(cursor, freshness[2], current_time))

reconcile(cursor, current_time) ==
    ReconcileAfterFreshness(
        cursor,
        determine_asset_partitions_to_reconcile_for_freshness(
            CachingDataTimeResolver(current_time), current_time),
        current_time)

----------------------------------------------------------------------------
(* Cursor serialization.  "/" separates the components of an asset key in  *)
(* its user string; a partitions subset of a time-window definition is     *)
(* serialized as its time windows, any other as its keys.                  *)

\* "/".join(path)
RECURSIVE to_user_string(_)
to_user_string(asset_key) ==
    IF Len(asset_key) = 0 THEN <<>>
    ELSE IF Len(asset_key) = 1 THEN asset_key[1]
    ELSE asset_key[1] \o <<"/">> \o to_user_string(Tail(asset_key))

\* asset_key_string.split("/")
RECURSIVE from_user_string(_)
from_user_string(key_str) ==
    IF \A i \in DOMAIN key_str : key_str[i] # "/" THEN <<key_str>>
    ELSE LET i == SetMin({j \in DOMAIN key_str : key_str[j] = "/"})
         IN  <<SubSeq(key_str, 1, i - 1)>>
             \o from_user_string(SubSeq(key_str, i + 1, Len(key_str)))

serialize_subset(partitions_def, subset) ==
    IF partitions_def.kind = "time"
    THEN {TimeWindow(time_window_for_partition_key(partitions_def, p).start,
                     time_window_for_partition_key(partitions_def, q).end) :
            <<p, q>> \in {x \in subset \X subset :
                            /\ x[1] <= x[2]
                            /\ \A i \in x[1] .. x[2] : i \in subset
                            /\ (x[1] - 1) \notin subset
                            /\ (x[2] + 1) \notin subset}}
    ELSE subset

deserialize_subset(partitions_def, serialized_subset) ==
    IF partitions_def.kind = "time"
    THEN UNION {{p \in ((w.start - partitions_def.start) \div partitions_def.width)
                       .. ((w.end - partitions_def.start) \div partitions_def.width) :
                    LET v == time_window_for_partition_key(partitions_def, p)
                    IN  v.start >= w.start /\ v.end <= w.end} :
                w \in serialized_subset}
    ELSE serialized_subset

\* context.cursor before the first tick
NoCursor == [latest_storage_id |-> NoStorageId, absent |-> TRUE]

serialize(cursor) ==
    LET by_key == cursor.materialized_or_requested_root_partitions_by_asset_key
    IN  [latest_storage_id |-> cursor.latest_storage_id,
         root_asset_keys |->
             {to_user_string(key) :
                 key \in cursor.materialized_or_requested_root_asset_keys},
         root_partitions_by_asset_key |->
             [key_str \in {to_user_string(key) : key \in DOMAIN by_key} |->
                 LET key == CHOOSE k \in DOMAIN by_key : to_user_string(k) = key_str
                 IN  serialize_subset(get_partitions_def(key), by_key[key])]]

\* a deserialization that forgets the partitions of the partitioned roots
from_serialized_without_partitions(serialized) ==
    AssetReconciliationCursor(
        serialized.latest_storage_id,
        {from_user_string(key_str) : key_str \in serialized.root_asset_keys},
        EmptyMapping)

from_serialized(serialized) ==
    LET by_key_str == serialized.root_partitions_by_asset_key
    IN  AssetReconciliationCursor(
            serialized.latest_storage_id,
            {from_user_string(key_str) : key_str \in serialized.root_asset_keys},
            [key \in {from_user_string(key_str) : key_str \in DOMAIN by_key_str} |->
                LET key_str == CHOOSE x \in DOMAIN by_key_str : from_user_string(x) = key
                IN  deserialize_subset(get_partitions_def(key), by_key_str[key_str])])

----------------------------------------------------------------------------
(* The stored cursor.  context.cursor is None, the empty string, a text    *)
(* json.loads rejects, or the text of a JSON value: null, a number, a      *)
(* string, a list or an object.  A serialized partitions subset is a       *)
(* string of its own, written and read by the partitions definition.       *)

JsonNull == [t |-> "null"]
JsonInt(v) == [t |-> "int", number |-> v]
JsonStr(chars) == [t |-> "str", chars |-> chars]
JsonList(items) == [t |-> "list", items |-> items]
JsonDict(mapping) == [t |-> "dict", mapping |-> mapping]
JsonSubset(serialized_subset) == [t |-> "subset", subset |-> serialized_subset]

\* context.cursor == ""
EmptyText == [t |-> "empty"]
\* a text that is no JSON document
InvalidText == [t |-> "invalid"]

\* what an exception raised while the cursor is loaded leaves instead of a value
CursorError == [error |-> "CursorError"]

\* the elements of a set in the order of one iteration over it
RECURSIVE SetToSeq(_)
SetToSeq(S) ==
    IF S = {} THEN <<>>
    ELSE LET x == CHOOSE y \in S : TRUE
         IN  <<x>> \o SetToSeq(S \ {x})

\* json.dumps of the tuple serialize has built
json_dumps(serialized) ==
    JsonList(<<IF serialized.latest_storage_id = NoStorageId THEN JsonNull
               ELSE JsonInt(serialized.latest_storage_id),
               JsonList(SetToSeq({JsonStr(key_str) :
                                     key_str \in serialized.root_asset_keys})),
               JsonDict([key_str \in DOMAIN serialized.root_partitions_by_asset_key |->
                            JsonSubset(
                                serialized.root_partitions_by_asset_key[key_str])])>>)

\* Python iterates over a list, over the characters of a string and over
\* the keys of a dict, and over nothing else
IsIterable(value) == value.t \in {"list", "str", "dict"}

JsonItems(value) ==
    IF value.t = "list" THEN value.items
    ELSE IF value.t = "str"
    THEN [i \in DOMAIN value.chars |-> JsonStr(<<value.chars[i]>>)]
    ELSE SetToSeq({JsonStr(key_str) : key_str \in DOMAIN value.mapping})

\* (a, b, c) = json.loads(cursor)
json_loads_unpack(content) ==
    IF content = InvalidText THEN CursorError
    ELSE IF ~IsIterable(content) THEN CursorError
    ELSE IF Len(JsonItems(content)) # 3 THEN CursorError
    ELSE JsonItems(content)

\* the three unpacked values as from_serialized goes through them: .items()
\* of the third, an iteration over the second; the first is taken as it is
\* (the inputs have null or a number there)
UnpackedCursor(parts) ==
    IF parts[3].t # "dict" THEN CursorError
    ELSE IF \E key_str \in DOMAIN parts[3].mapping :
              \/ from_user_string(key_str) \notin asset_graph.keys
              \/ ~is_partitioned(from_user_string(key_str))
              \/ parts[3].mapping[key_str].t # "subset"
    THEN CursorError
    ELSE IF ~IsIterable(parts[2]) THEN CursorError
    ELSE IF \E i \in DOMAIN JsonItems(parts[2]) : JsonItems(parts[2])[i].t # "str"
    THEN CursorError
    ELSE [latest_storage_id |->
              IF parts[1].t = "int" THEN parts[1].number ELSE NoStorageId,
          root_asset_keys |->
              {JsonItems(parts[2])[i].chars : i \in DOMAIN JsonItems(parts[2])},
          root_partitions_by_asset_key |->
              [key_str \in DOMAIN parts[3].mapping |-> parts[3].mapping[key_str].subset]]

\* AssetReconciliationCursor.from_serialized on the text of the cursor
from_serialized_cursor(content) ==
    IF json_loads_unpack(content) = CursorError THEN CursorError
    ELSE IF UnpackedCursor(json_loads_unpack(content)) = CursorError THEN CursorError
    ELSE from_serialized(UnpackedCursor(json_loads_unpack(content)))

----------------------------------------------------------------------------
(* State machine *)

GraphNames == DOMAIN Graphs

\* the graphs the sensor is run on tick after tick
SensorGraphNames ==
    {"diamond", "docstring", "root", "partitioned", "freshness", "static", "downstream"}

NoTick ==
    [ran |-> FALSE, error |-> FALSE, evaluation_time |-> NoTime,
     run_requests |-> {}, cursor |-> empty, updated_cursor |-> empty,
     to_reconcile |-> {}, to_reconcile_for_freshness |-> {},
     eventual_for_freshness |-> {},
     never_materialized_or_requested_roots |-> {}, stale_candidates |-> {},
     backfill_target_asset_graph_subset |-> {}, was_quiet |-> FALSE,
     was_requesting |-> FALSE]

NoCall == [fn |-> "none"]

Init ==
    /\ graph \in SensorGraphNames
    /\ asset_graph = Graphs[graph]
    /\ now = 0
    /\ last_storage_id = NoStorageId
    /\ latest = [ap \in AllAssetPartitions |-> NoRecord]
    /\ runs = <<>>
    /\ backfills = <<>>
    /\ stored_cursor = NoCursor
    /\ tick = NoTick
    /\ call = NoCall

\* the clock matters to the sensor only through time-window partitions and
\* freshness policies
TimeMatters ==
    \E k \in asset_graph.keys :
        \/ get_partitions_def(k).kind = "time"
        \/ asset_graph.freshness_policies_by_key[k] # {}

AdvanceTime ==
    /\ TimeMatters
    /\ now + ClockStep <= MaxTime
    /\ now' = now + ClockStep
    /\ tick' = NoTick
    /\ UNCHANGED <<graph, asset_graph, last_storage_id, latest, runs, backfills, stored_cursor, call>>

\* the event log stores a materialization of asset_partition by run run_id
StoreMaterialization(asset_partition, run_id) ==
    /\ last_storage_id' = last_storage_id + 1
    /\ latest' = [latest EXCEPT ![asset_partition] =
                    [storage_id |-> last_storage_id + 1,
                     run_id |-> run_id,
                     partition_key |-> asset_partition.partition_key,
                     data_time |-> DataTimeAt(asset_partition.asset_key, now)]]

\* a user materializes an asset partition outside of any run of the sensor
Materialize(asset_key, partition_key) ==
    /\ last_storage_id < MaxStorageId
    /\ asset_key \in asset_graph.manual
    /\ partition_key \in PartitionKeysOf(asset_key, now)
    /\ StoreMaterialization(AssetKeyPartitionKey(asset_key, partition_key), NoRun)
    /\ tick' = NoTick
    /\ UNCHANGED <<graph, asset_graph, now, runs, backfills, stored_cursor, call>>

\* a run of the sensor materializes the next asset of its selection
RunStep(run_id, asset_key) ==
    /\ last_storage_id < MaxStorageId
    /\ run_id \in DOMAIN runs
    /\ runs[run_id].status = "STARTED"
    /\ asset_key \in runs[run_id].asset_selection \ runs[run_id].materialized
    /\ is_partitioned(asset_key) <=> runs[run_id].partition_key # NoPartition
    /\ \A parent \in get_parents(asset_key) \cap runs[run_id].asset_selection :
          parent \in runs[run_id].materialized
    /\ StoreMaterialization(
           AssetKeyPartitionKey(asset_key, runs[run_id].partition_key), run_id)
    /\ runs' = [runs EXCEPT
                  ![run_id].materialized = @ \cup {asset_key},
                  ![run_id].status =
                      IF runs[run_id].materialized \cup {asset_key}
                         = runs[run_id].asset_selection
                      THEN "SUCCESS" ELSE "STARTED"]
    /\ tick' = NoTick
    /\ UNCHANGED <<graph, asset_graph, now, backfills, stored_cursor, call>>

RunFail(run_id) ==
    /\ run_id \in DOMAIN runs
    /\ runs[run_id].status = "STARTED"
    /\ runs' = [runs EXCEPT ![run_id].status = "FAILURE"]
    /\ tick' = NoTick
    /\ UNCHANGED <<graph, asset_graph, now, last_storage_id, latest, backfills, stored_cursor, call>>

\* the runs the daemon launches for the run requests of a tick
RECURSIVE LaunchedRuns(_, _)
LaunchedRuns(run_requests, start_time) ==
    IF run_requests = {} THEN <<>>
    ELSE LET rr == CHOOSE x \in run_requests : TRUE
         IN  <<[asset_selection |-> rr.asset_selection,
                partition_key |-> rr.partition_key,
                status |-> "STARTED", materialized |-> {},
                start_time |-> start_time]>>
             \o LaunchedRuns(run_requests \ {rr}, start_time)

\* a sensor that writes the cursor and returns the run requests of a tick
\* whatever has been raised on the way
SensorOutcomeIgnoringFailure(content, raised, out) ==
    [error |-> raised \/ out.error,
     run_requests |-> out.run_requests,
     stored |-> json_dumps(serialize(out.updated_cursor))]

\* what _sensor returns and leaves in context.cursor when reconcile has
\* returned out, and when an exception has left it before update_cursor
SensorOutcome(content, raised, out) ==
    [error |-> raised \/ out.error,
     run_requests |-> IF raised \/ out.error THEN {} ELSE out.run_requests,
     stored |-> IF raised \/ out.error THEN content
                ELSE json_dumps(serialize(out.updated_cursor))]

\* the sensor evaluates reconcile on the cursor it was given, keeps the
\* serialized updated cursor and returns the run requests, which the daemon
\* launches; a failed check leaves the cursor as it was
\* a tick that declares the backfills it has read completed
SensorTickCompletingBackfills(out) ==
    /\ Len(runs) + Cardinality(out.run_requests) <= MaxRuns
    /\ stored_cursor' = SensorOutcome(stored_cursor, FALSE, out).stored
    /\ runs' = runs \o LaunchedRuns(
                          SensorOutcome(stored_cursor, FALSE, out).run_requests, now)
    /\ tick' = [out EXCEPT !.ran = TRUE, !.evaluation_time = now,
                           !.was_quiet = tick.ran,
                           !.was_requesting = tick.ran /\ tick.run_requests # {}]
    /\ backfills' = [i \in DOMAIN backfills |->
                        IF backfills[i].status = "REQUESTED"
                        THEN with_status(backfills[i], "COMPLETED") ELSE backfills[i]]
    /\ UNCHANGED <<graph, asset_graph, now, last_storage_id, latest, call>>

SensorTick(out) ==
    /\ Len(runs) + Cardinality(out.run_requests) <= MaxRuns
    /\ stored_cursor' = SensorOutcome(stored_cursor, FALSE, out).stored
    /\ runs' = runs \o LaunchedRuns(
                          SensorOutcome(stored_cursor, FALSE, out).run_requests, now)
    /\ tick' = [out EXCEPT !.ran = TRUE, !.evaluation_time = now,
                           !.was_quiet = tick.ran,
                           !.was_requesting = tick.ran /\ tick.run_requests # {}]
    /\ UNCHANGED <<graph, asset_graph, now, last_storage_id, latest, backfills, call>>

\* the cursor _sensor starts from: context.cursor deserialized, or the empty
\* cursor before the first tick
sensor_cursor(content) ==
    IF content # NoCursor /\ content # EmptyText
    THEN from_serialized_cursor(content)
    ELSE empty

context_cursor == sensor_cursor(stored_cursor)

\* build_asset_reconciliation_sensor._sensor: one tick of the sensor
Tick ==
    \E out \in {reconcile(context_cursor, now)} : SensorTick(out)

(* Backfill lifecycle *)

\* the runs of a backfill no unit of which has been dispatched
NoUnitDispatched(backfill) ==
    [u \in backfill.target_subset \cup backfill.partition_names |-> "NOT_STARTED"]

LaunchBackfill(target, is_asset_backfill) ==
    /\ Len(backfills) < MaxBackfills
    /\ target \in asset_graph.backfill_targets
    /\ backfills' = Append(backfills,
                           PartitionBackfill("REQUESTED", target, is_asset_backfill))
    /\ tick' = NoTick
    /\ UNCHANGED <<graph, asset_graph, now, last_storage_id, latest, runs, stored_cursor, call>>

SetBackfillStatus(backfill_id, from, to) ==
    /\ backfill_id \in DOMAIN backfills
    /\ backfills[backfill_id].status = from
    /\ backfills' = update_backfill(backfills, backfill_id,
                                    with_status(backfills[backfill_id], to))
    /\ tick' = NoTick
    /\ UNCHANGED <<graph, asset_graph, now, last_storage_id, latest, runs, stored_cursor, call>>

CompleteBackfill(backfill_id) == SetBackfillStatus(backfill_id, "REQUESTED", "COMPLETED")
FailBackfill(backfill_id) == SetBackfillStatus(backfill_id, "REQUESTED", "FAILED")

CancelBackfill(backfill_id) ==
    /\ backfill_id \in DOMAIN backfills
    /\ \E result \in {cancel_partition_backfill(
                          backfills, NoUnitDispatched(backfills[backfill_id]), backfill_id)} :
          /\ result.typename = "CancelBackfillSuccess"
          /\ backfills' = result.store
    /\ tick' = NoTick
    /\ UNCHANGED <<graph, asset_graph, now, last_storage_id, latest, runs, stored_cursor, call>>

ResumeBackfill(backfill_id) ==
    /\ \E result \in {resume_partition_backfill(backfills, backfill_id)} :
          /\ result.typename = "ResumeBackfillSuccess"
          /\ backfills' = result.store
    /\ tick' = NoTick
    /\ UNCHANGED <<graph, asset_graph, now, last_storage_id, latest, runs, stored_cursor, call>>

Next ==
    \/ Tick
    \/ AdvanceTime
    \/ \E ap \in AllAssetPartitions : Materialize(ap.asset_key, ap.partition_key)
    \/ \E run_id \in 1 .. MaxRuns, asset_key \in asset_graph.keys :
          RunStep(run_id, asset_key)
    \/ \E run_id \in 1 .. MaxRuns : RunFail(run_id)
    \/ \E target \in asset_graph.backfill_targets, is_asset_backfill \in BOOLEAN :
          LaunchBackfill(target, is_asset_backfill)
    \/ \E backfill_id \in 1 .. MaxBackfills :
          \/ CompleteBackfill(backfill_id)
          \/ FailBackfill(backfill_id)
          \/ CancelBackfill(backfill_id)
          \/ ResumeBackfill(backfill_id)

Spec == Init /\ [][Next]_vars

\* the sensor on the graphs with multi-assets
GroupGraphNames == {"group", "sibling"}

InitGroups ==
    /\ graph \in GroupGraphNames
    /\ asset_graph = Graphs[graph]
    /\ now = 0
    /\ last_storage_id = NoStorageId
    /\ latest = [ap \in AllAssetPartitions |-> NoRecord]
    /\ runs = <<>>
    /\ backfills = <<>>
    /\ stored_cursor = NoCursor
    /\ tick = NoTick
    /\ call = NoCall

SpecGroups == InitGroups /\ [][Next]_vars

\* The sensor left alone: graphs without freshness policies, an event log
\* that users have written before the first tick, then nothing but the
\* ticks of the sensor and the steps of the runs it has requested; no run
\* fails and no backfill is launched.  Every tick that changes something
\* and every step of a run is taken at some time.
QuietGraphNames == {"diamond", "root", "partitioned", "static", "group"}

InitQuiet ==
    /\ graph \in QuietGraphNames
    /\ asset_graph = Graphs[graph]
    /\ now = 0
    /\ last_storage_id = NoStorageId
    /\ latest = [ap \in AllAssetPartitions |-> NoRecord]
    /\ runs = <<>>
    /\ backfills = <<>>
    /\ stored_cursor = NoCursor
    /\ tick = NoTick
    /\ call = NoCall

\* a step of one of the runs
RunSteps ==
    \E run_id \in 1 .. MaxRuns, asset_key \in asset_graph.keys :
        RunStep(run_id, asset_key)

NextQuiet ==
    \/ Tick
    \/ RunSteps
    \/ stored_cursor = NoCursor /\ AdvanceTime
    \/ /\ stored_cursor = NoCursor
       /\ \E ap \in AllAssetPartitions : Materialize(ap.asset_key, ap.partition_key)

\* ENABLED <<Tick>>_vars written out: the daemon can launch the runs, and
\* the tick returns a run request, writes another cursor or leaves another
\* record of itself
TickCanAct ==
    LET out == reconcile(context_cursor, now)
    IN  /\ Len(runs) + Cardinality(out.run_requests) <= MaxRuns
        /\ \/ out.run_requests # {}
           \/ SensorOutcome(stored_cursor, FALSE, out).stored # stored_cursor
           \/ tick # [out EXCEPT !.ran = TRUE, !.evaluation_time = now,
                                 !.was_quiet = tick.ran,
                                 !.was_requesting =
                                     tick.ran /\ tick.run_requests # {}]

\* WF_vars(Tick), with TickCanAct for ENABLED <<Tick>>_vars: the daemon
\* evaluates the sensor again and again
TickFairness == []<>(~TickCanAct) \/ []<><<Tick>>_vars

SpecQuiet ==
    /\ InitQuiet
    /\ [][NextQuiet]_vars
    /\ TickFairness
    /\ WF_vars(RunSteps)

----------------------------------------------------------------------------
(* Cooperative cancellation of a backfill: the backfill store, the         *)
(* backfill driver and the run executor.  `backfills` is the store and     *)
(* `call` keeps the status of the run of every unit of the backfill.       *)

\* the statuses of a run that has ended
TerminalRunStatuses == {"SUCCESS", "FAILURE", "CANCELED"}

\* the statuses of a run that was dispatched and has not ended
InFlightRunStatuses == {"QUEUED", "STARTED"}

\* the backfills users launch: a job backfill over both partitions, and an
\* asset backfill over both partitions of the root and one of the child
CancelTargets ==
    {[target |-> {AssetKeyPartitionKey(<< <<"t">> >>, 0),
                  AssetKeyPartitionKey(<< <<"t">> >>, 1)},
      is_asset_backfill |-> FALSE],
     [target |-> {AssetKeyPartitionKey(<< <<"t">> >>, 0),
                  AssetKeyPartitionKey(<< <<"t">> >>, 1),
                  AssetKeyPartitionKey(<< <<"c">> >>, 0)},
      is_asset_backfill |-> TRUE]}

InitCancel ==
    /\ graph = "static"
    /\ asset_graph = Graphs[graph]
    /\ now = 0
    /\ last_storage_id = NoStorageId
    /\ latest = [ap \in AllAssetPartitions |-> NoRecord]
    /\ runs = <<>>
    /\ backfills = <<>>
    /\ stored_cursor = NoCursor
    /\ tick = NoTick
    /\ call = NoCall

\* a cancellation that waits for every unit of the target, dispatched or not
finish_cancellation_after_all_units(store, unit_status, backfill_id) ==
    IF /\ store[backfill_id].status = "CANCELING"
       /\ \A u \in DOMAIN unit_status : unit_status[u] \in TerminalRunStatuses
    THEN update_backfill(store, backfill_id, with_status(store[backfill_id], "CANCELED"))
    ELSE store

\* the driver marks a backfill in REQUESTED as CANCELING
begin_cancellation(store, backfill_id) ==
    IF store[backfill_id].status = "REQUESTED"
    THEN update_backfill(store, backfill_id, with_status(store[backfill_id], "CANCELING"))
    ELSE store

\* the driver declares a backfill in CANCELING as CANCELED once none of its
\* dispatched units is in flight
finish_cancellation(store, unit_status, backfill_id) ==
    IF /\ store[backfill_id].status = "CANCELING"
       /\ \A u \in DOMAIN unit_status : unit_status[u] \notin InFlightRunStatuses
    THEN update_backfill(store, backfill_id, with_status(store[backfill_id], "CANCELED"))
    ELSE store

\* the driver declares a backfill in REQUESTED as COMPLETED once every unit
\* of its target reports a terminal status
complete_backfill(store, unit_status, backfill_id) ==
    IF /\ store[backfill_id].status = "REQUESTED"
       /\ \A u \in DOMAIN unit_status : unit_status[u] \in TerminalRunStatuses
    THEN update_backfill(store, backfill_id, with_status(store[backfill_id], "COMPLETED"))
    ELSE store

\* the launchPartitionBackfill mutation, no unit dispatched yet
LaunchUnits(target, is_asset_backfill) ==
    /\ call = NoCall
    /\ LET launched == PartitionBackfill("REQUESTED", target, is_asset_backfill)
           result == execute_backfill_mutation(
                         FALSE, "launchPartitionBackfill", backfills, << >>, 0, launched)
       IN  /\ result.typename = "LaunchBackfillSuccess"
           /\ backfills' = result.store
           /\ call' = [fn |-> "backfill_units", backfill_id |-> Len(result.store),
                        last |-> "launch",
                        unit_status |-> NoUnitDispatched(launched)]
    /\ UNCHANGED <<graph, asset_graph, now, last_storage_id, latest, runs,
                   stored_cursor, tick>>

\* the run of a unit goes from one status to another
UnitStep(u, from, to, step) ==
    /\ u \in DOMAIN call.unit_status
    /\ call.unit_status[u] \in from
    /\ call' = [call EXCEPT !.unit_status[u] = to, !.last = step]
    /\ UNCHANGED <<graph, asset_graph, now, last_storage_id, latest, runs, backfills,
                   stored_cursor, tick>>

\* the driver dispatches a unit of a backfill in REQUESTED
DispatchUnit(u) ==
    /\ call # NoCall
    /\ backfills[call.backfill_id].status = "REQUESTED"
    /\ UnitStep(u, {"NOT_STARTED"}, "QUEUED", "dispatch")

\* the executor starts a dispatched unit
StartUnit(u) ==
    /\ call # NoCall
    /\ UnitStep(u, {"QUEUED"}, "STARTED", "start")

\* the executor lets a started unit finish
FinishUnit(u, outcome) ==
    /\ call # NoCall
    /\ UnitStep(u, {"STARTED"}, outcome, "finish")

\* the executor cancels a unit in flight of a backfill that is being
\* cancelled or is cancelled
CancelUnit(u) ==
    /\ call # NoCall
    /\ backfills[call.backfill_id].status \in {"CANCELING", "CANCELED"}
    /\ UnitStep(u, InFlightRunStatuses, "CANCELED", "cancel_unit")

\* the store changes by a mutation or by the driver
StoreStep(store, step) ==
    /\ call # NoCall
    /\ store # backfills
    /\ backfills' = store
    /\ call' = [call EXCEPT !.last = step]
    /\ UNCHANGED <<graph, asset_graph, now, last_storage_id, latest, runs,
                   stored_cursor, tick>>

\* the cancelPartitionBackfill mutation
CancelUnits ==
    /\ call # NoCall
    /\ StoreStep(cancel_partition_backfill(backfills, call.unit_status,
                                           call.backfill_id).store,
                 "cancel")

BeginCancellation ==
    /\ call # NoCall
    /\ StoreStep(begin_cancellation(backfills, call.backfill_id), "begin_cancellation")

FinishCancellation ==
    /\ call # NoCall
    /\ StoreStep(finish_cancellation(backfills, call.unit_status, call.backfill_id),
                 "finish_cancellation")

CompleteUnits ==
    /\ call # NoCall
    /\ StoreStep(complete_backfill(backfills, call.unit_status, call.backfill_id),
                 "complete")

\* the units of the backfill that was launched
UnitsOfCall == IF call = NoCall THEN {} ELSE DOMAIN call.unit_status

\* the steps of the run executor
ExecutorSteps ==
    \E u \in UnitsOfCall :
        \/ StartUnit(u)
        \/ \E outcome \in {"SUCCESS", "FAILURE"} : FinishUnit(u, outcome)
        \/ CancelUnit(u)

NextCancel ==
    \/ \E c \in CancelTargets : LaunchUnits(c.target, c.is_asset_backfill)
    \/ \E u \in UnitsOfCall : DispatchUnit(u)
    \/ ExecutorSteps
    \/ CancelUnits
    \/ BeginCancellation
    \/ FinishCancellation
    \/ CompleteUnits

\* the executor goes on with the units in flight, and the driver goes on
\* with a cancellation it has begun
SpecCancel ==
    /\ InitCancel
    /\ [][NextCancel]_vars
    /\ WF_vars(ExecutorSteps)
    /\ WF_vars(FinishCancellation)

----------------------------------------------------------------------------
(* Function-level checks: the functions of the sensor applied to inputs    *)
(* drawn from bounded sets.  `call` keeps the inputs and the result of the *)
(* application.                                                             *)

InitCalls ==
    /\ graph \in GraphNames
    /\ asset_graph = Graphs[graph]
    /\ now = 0
    /\ last_storage_id = NoStorageId
    /\ latest = [ap \in AllAssetPartitions |-> NoRecord]
    /\ runs = <<>>
    /\ backfills = <<>>
    /\ stored_cursor = NoCursor
    /\ tick = NoTick
    /\ call = NoCall

StorageIdInputs == NoStorageId .. MaxStorageId

CursorInputs ==
    {AssetReconciliationCursor(id, root_asset_keys, EmptyMapping) :
        id \in StorageIdInputs,
        root_asset_keys \in SUBSET {k \in target_root_asset_keys : ~is_partitioned(k)}}

RunRequestInputs ==
    {{}} \cup {build_run_requests({ap}) :
                  ap \in {x \in AllAssetPartitions : x.asset_key \in target_asset_keys}}

TimeInputs == 0 .. MaxTime \div 5

DataTimeInputs == {NoTime} \cup (0 .. MaxTime \div 10)

PolicyInputs ==
    {FreshnessPolicy(lag, Day, offset) : lag \in 1 .. 3, offset \in 5 .. 8}
    \cup {FreshnessPolicy(lag, 0, 0) : lag \in {Day \div 2, Day}}

\* no policy, and three policies with cron schedules, the third with a tick
\* of its own or with the tick of another and a longer lag
PolicySetInputs ==
    {{}} \cup {{FreshnessPolicy(1, Day, o1), FreshnessPolicy(1, Day, o2), r} :
                  o1 \in 5 .. 6, o2 \in 6 .. 7,
                  r \in {FreshnessPolicy(3, Day, 7), FreshnessPolicy(3, Day, 8)}}

\* the receiver's own dict, not a copy of it
DictOfReceiver(mapping) == [items |-> mapping, same_object |-> TRUE]

\* {**mapping}: a new dict with the items of mapping
DictCopy(mapping) == [items |-> mapping, same_object |-> FALSE]

\* the receiver of with_updates once the call has returned or raised: the
\* only statements of with_updates that write to an object are the item
\* assignments to result_materialized_or_requested_root_partitions_by_asset_key,
\* which come before the check of the storage ids; the root keys are united
\* into a new set and with_partition_keys returns a new subset
ReceiverAfterWithUpdates(cursor, latest_storage_id, run_requests, newly_materialized_root_asset_keys, newly_materialized_root_partitions_by_asset_key) ==
    LET result_materialized_or_requested_root_partitions_by_asset_key ==
            DictCopy(cursor.materialized_or_requested_root_partitions_by_asset_key)
    IN  IF result_materialized_or_requested_root_partitions_by_asset_key.same_object
        THEN [cursor EXCEPT
                !.materialized_or_requested_root_partitions_by_asset_key =
                    UpdatedCursor(cursor, latest_storage_id, run_requests,
                                  newly_materialized_root_asset_keys,
                                  newly_materialized_root_partitions_by_asset_key)
                        .materialized_or_requested_root_partitions_by_asset_key]
        ELSE cursor

WithUpdatesCall(cursor, latest_storage_id, run_requests, newly_materialized_root_asset_keys) ==
    /\ call = NoCall
    /\ call' = [fn |-> "with_updates", cursor |-> cursor,
                latest_storage_id |-> latest_storage_id,
                receiver |-> ReceiverAfterWithUpdates(
                                 cursor, latest_storage_id, run_requests,
                                 newly_materialized_root_asset_keys, EmptyMapping),
                assigned |-> UpdatedCursor(
                                 cursor, latest_storage_id, run_requests,
                                 newly_materialized_root_asset_keys, EmptyMapping)
                                 .materialized_or_requested_root_partitions_by_asset_key,
                result |-> with_updates(cursor, latest_storage_id, run_requests,
                                        newly_materialized_root_asset_keys,
                                        EmptyMapping),
                persisted |->
                    LET result == with_updates(
                                      cursor, latest_storage_id, run_requests,
                                      newly_materialized_root_asset_keys,
                                      EmptyMapping)
                    IN  serialize(IF result = CheckError THEN cursor ELSE result)]
    /\ UNCHANGED <<graph, asset_graph, now, last_storage_id, latest, runs, backfills,
                   stored_cursor, tick>>

\* the function reads no graph: it is applied on one of them
\* get_execution_period_for_policy applied to one policy
PolicyPeriodCall(freshness_policy, effective_data_time, evaluation_time) ==
    /\ call = NoCall
    /\ graph = "policies"
    /\ call' = [fn |-> "get_execution_period_for_policy",
                freshness_policy |-> freshness_policy,
                effective_data_time |-> effective_data_time,
                evaluation_time |-> evaluation_time,
                result |-> get_execution_period_for_policy(
                               freshness_policy, effective_data_time,
                               evaluation_time)]
    /\ UNCHANGED <<graph, asset_graph, now, last_storage_id, latest, runs, backfills,
                   stored_cursor, tick>>

\* get_execution_period_for_policies applied to no policy or to three
MergedPeriodCall(policies, effective_data_time, evaluation_time) ==
    /\ call = NoCall
    /\ graph = "policies"
    /\ call' = [fn |-> "merged_period",
                policies |-> policies,
                periods |-> ExecutionPeriods(policies, effective_data_time,
                                             evaluation_time),
                effective_data_time |-> effective_data_time,
                evaluation_time |-> evaluation_time,
                result |-> get_execution_period_for_policies(
                               policies, effective_data_time, evaluation_time)]
    /\ UNCHANGED <<graph, asset_graph, now, last_storage_id, latest, runs, backfills,
                   stored_cursor, tick>>

ExecutionPeriodCall(policies, effective_data_time, evaluation_time) ==
    /\ call = NoCall
    /\ graph = "policies"
    /\ call' = [fn |-> "get_execution_period_for_policies",
                periods |-> ExecutionPeriods(policies, effective_data_time,
                                             evaluation_time),
                effective_data_time |-> effective_data_time,
                evaluation_time |-> evaluation_time,
                result |-> get_execution_period_for_policies(
                               policies, effective_data_time, evaluation_time)]
    /\ UNCHANGED <<graph, asset_graph, now, last_storage_id, latest, runs, backfills,
                   stored_cursor, tick>>

\* the freshness pass on a graph none of whose assets has a run in progress
\* or failed, all with the same current data time
FreshnessCall(data_time, evaluation_time) ==
    /\ call = NoCall
    /\ \E k \in asset_graph.keys : asset_graph.freshness_policies_by_key[k] # {}
    /\ LET data_times ==
               [key \in asset_graph.keys |->
                   [current |-> data_time, in_progress |-> NoTime,
                    failed |-> data_time]]
           decided == determine_asset_partitions_to_reconcile_for_freshness(
                          data_times, evaluation_time)
       IN  call' = [fn |-> "determine_asset_partitions_to_reconcile_for_freshness",
                    data_time |-> data_time,
                    evaluation_time |-> evaluation_time,
                    periods |-> [key \in asset_graph.keys |->
                                    ExecutionPeriods(
                                        get_downstream_freshness_policies(key),
                                        data_time, evaluation_time)],
                    to_materialize |-> decided[1],
                    expected_data_time_by_key |->
                        FreshnessPass(data_times, evaluation_time)
                            .expected_data_time_by_key,
                    run_requests |-> build_run_requests(decided[1])]
    /\ UNCHANGED <<graph, asset_graph, now, last_storage_id, latest, runs, backfills,
                   stored_cursor, tick>>

\* allowable_time_window_for_partitions_def applied to the partitions
\* definition of an asset, also before its first partition exists
AllowableTimeWindowCall(asset_key, evaluation_time) ==
    /\ get_partitions_def(asset_key).kind = "time"
    /\ call = NoCall
    /\ call' = [fn |-> "allowable_time_window_for_partitions_def",
                partitions_def |-> get_partitions_def(asset_key),
                evaluation_time |-> evaluation_time,
                result |-> allowable_time_window_for_partitions_def(
                               get_partitions_def(asset_key), evaluation_time)]
    /\ UNCHANGED <<graph, asset_graph, now, last_storage_id, latest, runs, backfills,
                   stored_cursor, tick>>

AllowableWindowCall(asset_key, partition_key, evaluation_time) ==
    /\ get_partitions_def(asset_key).kind = "time"
    /\ partition_key \in get_partition_keys(get_partitions_def(asset_key),
                                            evaluation_time)
    /\ call = NoCall
    /\ call' = [fn |-> "candidates_unit_within_allowable_time_window",
                partitions_def |-> get_partitions_def(asset_key),
                partition_key |-> partition_key,
                evaluation_time |-> evaluation_time,
                allowable_time_window |->
                    allowable_time_window_for_partitions_def(
                        get_partitions_def(asset_key), evaluation_time),
                within |-> candidates_unit_within_allowable_time_window(
                               {AssetKeyPartitionKey(asset_key, partition_key)},
                               evaluation_time),
                never_requested |->
                    partition_key \in
                        get_never_requested_never_materialized_partitions(
                            empty, asset_key, evaluation_time)]
    /\ UNCHANGED <<graph, asset_graph, now, last_storage_id, latest, runs, backfills,
                   stored_cursor, tick>>

\* the cursors of the graph: any root keys, and for any of the partitioned
\* roots any subset of its partitions (the empty one included)
PartitionedRootKeys == {k \in target_root_asset_keys : is_partitioned(k)}

RECURSIVE PartitionsByKeyOver(_)
PartitionsByKeyOver(keys) ==
    IF keys = {} THEN {EmptyMapping}
    ELSE LET k == CHOOSE x \in keys : TRUE
         IN  {m @@ (k :> subset) :
                 m \in PartitionsByKeyOver(keys \ {k}),
                 subset \in SUBSET PartitionKeysOf(k, MaxTime)}

PartitionsByKeyInputs ==
    UNION {PartitionsByKeyOver(keys) : keys \in SUBSET PartitionedRootKeys}

RoundTripCursorInputs ==
    {AssetReconciliationCursor(id, root_asset_keys, by_key) :
        id \in {NoStorageId, 1, MaxStorageId},
        root_asset_keys \in SUBSET {k \in target_root_asset_keys : ~is_partitioned(k)},
        by_key \in PartitionsByKeyInputs}

\* cursor.serialize() and AssetReconciliationCursor.from_serialized of it
SerializeCall(cursor) ==
    /\ call = NoCall
    /\ call' = [fn |-> "serialize", cursor |-> cursor,
                serialized |-> serialize(cursor),
                result |-> from_serialized(serialize(cursor))]
    /\ UNCHANGED <<graph, asset_graph, now, last_storage_id, latest, runs, backfills,
                   stored_cursor, tick>>

\* the stored contents that are no serialized cursor
MalformedJsonInputs ==
    {JsonNull, JsonInt(1), JsonStr(<<>>), JsonStr(<<"a", "b", "c">>),
     JsonList(<<>>), JsonDict(<<>>),
     JsonList(<<JsonNull, JsonList(<<>>)>>),
     JsonList(<<JsonNull, JsonList(<<>>), JsonList(<<>>)>>),
     JsonList(<<JsonNull, JsonInt(1), JsonDict(<<>>)>>),
     JsonList(<<JsonNull, JsonList(<<JsonInt(1)>>), JsonDict(<<>>)>>),
     JsonList(<<JsonNull, JsonStr(<<>>), JsonDict(<<>>)>>),
     JsonList(<<JsonNull, JsonDict(<<>>), JsonDict(<<>>)>>),
     JsonList(<<JsonInt(1), JsonStr(<<"r">>), JsonDict(<<>>)>>),
     JsonList(<<JsonNull, JsonList(<<>>), JsonDict(<<"z">> :> JsonSubset({}))>>),
     JsonList(<<JsonNull, JsonList(<<>>), JsonDict(<<"r">> :> JsonInt(1))>>)}

\* the cursors a sensor of the graph writes: of the partitions of a root
\* none, the first one or all
SensorCursorInputs ==
    {cursor \in RoundTripCursorInputs :
        /\ cursor.latest_storage_id # 1
        /\ \A k \in DOMAIN cursor.materialized_or_requested_root_partitions_by_asset_key :
              cursor.materialized_or_requested_root_partitions_by_asset_key[k]
                  \in {{}, {0}, PartitionKeysOf(k, MaxTime)}}

StoredContentInputs ==
    {NoCursor, EmptyText, InvalidText}
    \cup MalformedJsonInputs
    \cup {json_dumps(serialize(cursor)) : cursor \in SensorCursorInputs}

\* one evaluation of _sensor on a stored content; query_fails: a query of
\* the instance or of the graph raises inside reconcile
SensorCall(content, query_fails) ==
    /\ call = NoCall
    /\ LET loaded == sensor_cursor(content)
           raised == loaded = CursorError \/ query_fails
           out == IF loaded = CursorError THEN NoTick ELSE reconcile(loaded, now)
       IN  call' = [fn |-> "_sensor", content |-> content,
                    query_fails |-> query_fails, loaded |-> loaded,
                    would_request |-> out.run_requests,
                    outcome |-> SensorOutcome(content, raised, out)]
    /\ UNCHANGED <<graph, asset_graph, now, last_storage_id, latest, runs, backfills,
                   stored_cursor, tick>>

\* the units a tick may have decided, and units with a partition key for an
\* asset without partitions
DecidedUnitInputs ==
    AllAssetPartitions
    \cup {AssetKeyPartitionKey(k, 0) : k \in {x \in asset_graph.keys : ~is_partitioned(x)}}

DecidedInputs ==
    {units \in SUBSET DecidedUnitInputs : Cardinality(units) <= MaxDecided}

\* the end of a tick: build_run_requests on the decided units, with_updates
\* with the latest storage id the detectors have seen, update_cursor
ReconcileResultCall(cursor, latest_storage_id, asset_partitions) ==
    /\ call = NoCall
    /\ LET decided == [to_reconcile |-> asset_partitions,
                       newly_materialized_root_asset_keys |-> {},
                       newly_materialized_root_partitions_by_asset_key |-> EmptyMapping,
                       latest_storage_id |-> latest_storage_id,
                       never_materialized_or_requested_roots |-> {},
                       stale_candidates |-> {},
                       backfill_target_asset_graph_subset |-> {}]
           out == ReconcileResult(cursor, <<{}, {}>>, decided)
       IN  call' = [fn |-> "build_run_requests", cursor |-> cursor,
                    latest_storage_id |-> latest_storage_id,
                    asset_partitions |-> asset_partitions,
                    check_failed |-> build_run_requests_check_failed(asset_partitions),
                    built |-> IF build_run_requests_check_failed(asset_partitions)
                              THEN {} ELSE build_run_requests(asset_partitions),
                    updated_cursor |-> out.updated_cursor,
                    outcome |-> SensorOutcome(json_dumps(serialize(cursor)), FALSE, out)]
    /\ UNCHANGED <<graph, asset_graph, now, last_storage_id, latest, runs, backfills,
                   stored_cursor, tick>>

----------------------------------------------------------------------------
(* UnresolvedAssetJobDefinition.resolve *)

\* what a call of resolve gives: the error it raises, or the job that
\* build_asset_selection_job is called for
ResolveRaises(error) ==
    [error |-> error, built |-> FALSE, asset_selection |-> {},
     partitions_def |-> Unpartitioned]

AssetSelectionJob(asset_selection, partitions_def) ==
    [error |-> "none", built |-> TRUE, asset_selection |-> asset_selection,
     partitions_def |-> partitions_def]

\* the selected asset keys that have a partitions definition, by definition
asset_keys_by_partitions_def(selected_asset_keys) ==
    [d \in {get_partitions_def(k) : k \in {x \in selected_asset_keys : is_partitioned(x)}} |->
        {k \in selected_asset_keys : get_partitions_def(k) = d}]

\* a resolve that takes the explicit partitions definition without
\* comparing it to the one of the selected assets
resolve_without_comparison(partitions_def, selected_asset_keys, arguments) ==
    IF arguments \notin {"asset_graph", "assets and source_assets"}
    THEN ResolveRaises("CheckError")
    ELSE IF /\ DOMAIN asset_keys_by_partitions_def(selected_asset_keys) = {}
            /\ partitions_def # Unpartitioned
    THEN ResolveRaises("DagsterInvalidDefinitionError")
    ELSE IF Cardinality(DOMAIN asset_keys_by_partitions_def(selected_asset_keys)) > 1
    THEN ResolveRaises("DagsterInvalidDefinitionError")
    ELSE AssetSelectionJob(
             selected_asset_keys,
             IF partitions_def # Unpartitioned THEN partitions_def
             ELSE IF DOMAIN asset_keys_by_partitions_def(selected_asset_keys) = {}
                  THEN Unpartitioned
                  ELSE CHOOSE d \in DOMAIN asset_keys_by_partitions_def(selected_asset_keys) : TRUE)

\* resolve on a job whose partitions_def is the given one (Unpartitioned
\* for None) and whose selection resolves to selected_asset_keys; arguments
\* says which of asset_graph, assets and source_assets the caller has given
resolve(partitions_def, selected_asset_keys, arguments) ==
    IF arguments \notin {"asset_graph", "assets and source_assets"}
    THEN ResolveRaises("CheckError")
    ELSE IF /\ DOMAIN asset_keys_by_partitions_def(selected_asset_keys) = {}
            /\ partitions_def # Unpartitioned
    THEN ResolveRaises("DagsterInvalidDefinitionError")
    ELSE IF Cardinality(DOMAIN asset_keys_by_partitions_def(selected_asset_keys)) > 1
    THEN ResolveRaises("DagsterInvalidDefinitionError")
    ELSE IF /\ DOMAIN asset_keys_by_partitions_def(selected_asset_keys) # {}
            /\ partitions_def
                 # (CHOOSE d \in DOMAIN asset_keys_by_partitions_def(selected_asset_keys) : TRUE)
            /\ partitions_def # Unpartitioned
    THEN ResolveRaises("DagsterInvalidDefinitionError")
    ELSE AssetSelectionJob(
             selected_asset_keys,
             IF partitions_def # Unpartitioned THEN partitions_def
             ELSE IF DOMAIN asset_keys_by_partitions_def(selected_asset_keys) = {}
                  THEN Unpartitioned
                  ELSE CHOOSE d \in DOMAIN asset_keys_by_partitions_def(selected_asset_keys) : TRUE)

\* the arguments of resolve: asset_graph alone, the deprecated assets and
\* source_assets, both, or none of them
ResolveArguments ==
    {"asset_graph", "assets and source_assets", "asset_graph and assets", "none"}

ResolveCall(partitions_def, selected_asset_keys, arguments) ==
    /\ call = NoCall
    /\ call' = [fn |-> "resolve", partitions_def |-> partitions_def,
                selected_asset_keys |-> selected_asset_keys,
                arguments |-> arguments,
                result |-> resolve(partitions_def, selected_asset_keys, arguments)]
    /\ UNCHANGED <<graph, asset_graph, now, last_storage_id, latest, runs, backfills,
                   stored_cursor, tick>>

BackfillStatuses == {"REQUESTED", "COMPLETED", "CANCELED", "FAILED"}

\* the backfills a store may hold on the targets of the graph
BackfillInputs ==
    {PartitionBackfill(status, target, is_asset_backfill) :
        status \in BackfillStatuses, target \in asset_graph.backfill_targets,
        is_asset_backfill \in BOOLEAN}

\* a status for the run of every unit of a backfill
UnitStatusInputs(backfill) ==
    [DOMAIN NoUnitDispatched(backfill) -> {"NOT_STARTED", "STARTED", "SUCCESS", "FAILURE"}]

\* a cancel or resume mutation on a store that holds the backfill under id
\* 1, followed by the status query for that id
BackfillMutationCall(mutation, backfill, unit_status) ==
    /\ call = NoCall
    /\ LET result == IF mutation = "cancelPartitionBackfill"
                      THEN cancel_partition_backfill(<<backfill>>, unit_status, 1)
                      ELSE resume_partition_backfill(<<backfill>>, 1)
       IN  /\ backfills' = result.store
           /\ call' = [fn |-> mutation, backfill_id |-> 1, backfill |-> backfill,
                        unit_status |-> unit_status,
                        typename |-> result.typename,
                        queried |-> partitionBackfillOrError(result.store, unit_status, 1)]
    /\ UNCHANGED <<graph, asset_graph, now, last_storage_id, latest, runs,
                   stored_cursor, tick>>

\* a launch, cancel or resume mutation in a read-only or an executing
\* context, on a store that holds the backfill under id 1, followed by the
\* query for that id
GraphqlMutationCall(read_only, mutation, backfill) ==
    /\ call = NoCall
    /\ LET result == execute_backfill_mutation(
                         read_only, mutation, <<backfill>>, NoUnitDispatched(backfill), 1,
                         PartitionBackfill("REQUESTED", backfill.target_subset,
                                           backfill.is_asset_backfill))
       IN  /\ backfills' = result.store
           /\ call' = [fn |-> "execute_dagster_graphql", read_only |-> read_only,
                        mutation |-> mutation, backfill_id |-> 1, backfill |-> backfill,
                        typename |-> result.typename,
                        queried |-> partitionBackfillOrError(
                                        result.store, NoUnitDispatched(backfill), 1),
                        permissions |-> backfill_permissions(read_only)]
    /\ UNCHANGED <<graph, asset_graph, now, last_storage_id, latest, runs,
                   stored_cursor, tick>>

\* one function is applied once: the guard comes before the inputs are drawn
NextCalls ==
    \/ /\ call = NoCall
       /\ \E read_only \in BOOLEAN,
             mutation \in {"launchPartitionBackfill", "cancelPartitionBackfill",
                           "resumePartitionBackfill"},
             backfill \in BackfillInputs :
             GraphqlMutationCall(read_only, mutation, backfill)
    \/ /\ call = NoCall
       /\ \E partitions_def \in {Unpartitioned, DailyPartitionsDefinition,
                                  StaticPartitionsDefinition(2), StaticPartitionsDefinition(3)},
             selected_asset_keys \in SUBSET asset_graph.keys,
             arguments \in ResolveArguments :
             ResolveCall(partitions_def, selected_asset_keys, arguments)
    \/ /\ call = NoCall
       /\ \E mutation \in {"cancelPartitionBackfill", "resumePartitionBackfill"},
             backfill \in BackfillInputs :
             \E unit_status \in UnitStatusInputs(backfill) :
                 BackfillMutationCall(mutation, backfill, unit_status)
    \/ /\ call = NoCall
       /\ \E cursor \in RoundTripCursorInputs : SerializeCall(cursor)
    \/ /\ call = NoCall
       /\ \E content \in StoredContentInputs, query_fails \in BOOLEAN :
             SensorCall(content, query_fails)
    \/ /\ call = NoCall
       /\ \E cursor \in {empty, AssetReconciliationCursor(MaxStorageId, {}, EmptyMapping)},
             latest_storage_id \in {NoStorageId, 1, MaxStorageId},
             asset_partitions \in DecidedInputs :
             ReconcileResultCall(cursor, latest_storage_id, asset_partitions)
    \/ /\ call = NoCall
       /\ \E cursor \in CursorInputs, latest_storage_id \in StorageIdInputs,
             run_requests \in RunRequestInputs,
             newly_materialized_root_asset_keys \in SUBSET target_root_asset_keys :
             WithUpdatesCall(cursor, latest_storage_id, run_requests,
                             newly_materialized_root_asset_keys)
    \/ /\ call = NoCall
       /\ \E p \in PolicyInputs, q \in PolicyInputs,
             effective_data_time \in DataTimeInputs, evaluation_time \in TimeInputs :
             ExecutionPeriodCall({p, q}, effective_data_time, evaluation_time)
    \/ /\ call = NoCall
       /\ \E freshness_policy \in PolicyInputs,
             effective_data_time \in DataTimeInputs, evaluation_time \in TimeInputs :
             PolicyPeriodCall(freshness_policy, effective_data_time, evaluation_time)
    \/ /\ call = NoCall
       /\ \E policies \in PolicySetInputs,
             effective_data_time \in DataTimeInputs, evaluation_time \in TimeInputs :
             MergedPeriodCall(policies, effective_data_time, evaluation_time)
    \/ /\ call = NoCall
       /\ \E data_time \in DataTimeInputs, evaluation_time \in TimeInputs :
             FreshnessCall(data_time, evaluation_time)
    \/ /\ call = NoCall
       /\ \E ap \in AllAssetPartitions, evaluation_time \in 0 .. MaxTime :
             AllowableWindowCall(ap.asset_key, ap.partition_key, evaluation_time)
    \/ /\ call = NoCall
       /\ \E asset_key \in asset_graph.keys, evaluation_time \in 0 .. MaxTime :
             AllowableTimeWindowCall(asset_key, evaluation_time)

SpecCalls == InitCalls /\ [][NextCalls]_vars

----------------------------------------------------------------------------
(* The propagation detector, parent by parent.  reconcile prefetches the   *)
(* asset records and the partition counts since the cursor of the selected *)
(* assets and their parents, and the loop of                               *)
(* find_parent_materialized_asset_partitions then asks the instance        *)
(* queryer for one parent after the other, in the order its set of parents *)
(* iterates; the event log receives materializations in between.           *)

\* the records of the partitions of asset_key after the cursor
RecordsAfter(asset_key, after_cursor) ==
    {<<ap, latest[ap].storage_id>> :
        ap \in {x \in DOMAIN latest : /\ x.asset_key = asset_key
                                       /\ latest[x].storage_id # NoStorageId
                                       /\ latest[x].storage_id > after_cursor}}

NotPrefetched == [prefetched |-> FALSE]

\* prefetch_asset_records: the asset record of every relevant asset, with
\* its last materialization record, fetched in one query
prefetch_asset_records ==
    [asset_key \in target_parent_asset_keys |->
        get_latest_materialization_record(
            AssetKeyPartitionKey(asset_key, NoPartition), NoStorageId)]

\* prefetch_asset_partition_counts: the partitions of every relevant asset
\* materialized after the cursor, fetched in one query
prefetch_asset_partition_counts(after_cursor) ==
    [prefetched |-> TRUE,
     records |-> UNION {RecordsAfter(asset_key, after_cursor) :
                           asset_key \in target_parent_asset_keys}]

\* a queryer that asks the event log again for every asset
latest_materialization_record_from_event_log(asset_records, asset_key, after_cursor) ==
    get_latest_materialization_record(
        AssetKeyPartitionKey(asset_key, NoPartition), after_cursor)

\* the queryer's answer for an asset whose record is prefetched: the last
\* materialization of the asset record, if it is after the cursor
latest_materialization_record_of_asset_record(asset_records, asset_key, after_cursor) ==
    IF asset_records[asset_key].storage_id # NoStorageId
       /\ asset_records[asset_key].storage_id > after_cursor
    THEN asset_records[asset_key]
    ELSE NoRecord

\* the queryer's answer for an asset whose partition counts are prefetched
materialized_partitions_of_counts(partition_counts, asset_key) ==
    {record[1].partition_key :
        record \in {x \in partition_counts.records : x[1].asset_key = asset_key}}

\* reconcile starts: the asset records are prefetched
ScanStart(latest_storage_id) ==
    /\ call = NoCall
    /\ call' = [fn |-> "find_parent_materialized_asset_partitions",
                latest_storage_id |-> latest_storage_id,
                evaluation_time |-> now,
                started_at |-> last_storage_id,
                asset_records |-> prefetch_asset_records,
                partition_counts |-> NotPrefetched,
                pending |-> target_parent_asset_keys,
                seen |-> {},
                result_asset_partitions |-> {},
                result_latest_storage_id |-> latest_storage_id]
    /\ UNCHANGED <<graph, asset_graph, now, last_storage_id, latest, runs, backfills,
                   stored_cursor, tick>>

\* the partition counts are prefetched
ScanPrefetchPartitionCounts ==
    /\ call # NoCall
    /\ ~call.partition_counts.prefetched
    /\ call' = [call EXCEPT !.partition_counts =
                                prefetch_asset_partition_counts(call.latest_storage_id)]
    /\ UNCHANGED <<graph, asset_graph, now, last_storage_id, latest, runs, backfills,
                   stored_cursor, tick>>

\* an iteration that takes the storage id of the parent scanned last
ScanParentKeepingLastStorageId(asset_key) ==
    /\ call # NoCall
    /\ call.partition_counts.prefetched
    /\ asset_key \in call.pending
    /\ LET latest_record ==
               latest_materialization_record_of_asset_record(
                   call.asset_records, asset_key, call.latest_storage_id)
       IN  call' =
              IF is_source(asset_key) \/ latest_record = NoRecord
              THEN [call EXCEPT !.pending = @ \ {asset_key}]
              ELSE [call EXCEPT
                      !.pending = @ \ {asset_key},
                      !.result_latest_storage_id = latest_record.storage_id]
    /\ UNCHANGED <<graph, asset_graph, now, last_storage_id, latest, runs, backfills,
                   stored_cursor, tick>>

\* one iteration of the loop over target_parent_asset_keys
ScanParent(asset_key) ==
    /\ call # NoCall
    /\ call.partition_counts.prefetched
    /\ asset_key \in call.pending
    /\ LET latest_record ==
               latest_materialization_record_of_asset_record(
                   call.asset_records, asset_key, call.latest_storage_id)
           partition_keys ==
               materialized_partitions_of_counts(call.partition_counts, asset_key)
       IN  call' =
              IF is_source(asset_key) \/ latest_record = NoRecord
              THEN [call EXCEPT !.pending = @ \ {asset_key}]
              ELSE [call EXCEPT
                      !.pending = @ \ {asset_key},
                      !.seen = @ \cup {<<AssetKeyPartitionKey(
                                            asset_key, latest_record.partition_key),
                                        latest_record.storage_id>>}
                                 \cup (IF is_partitioned(asset_key)
                                       THEN {x \in call.partition_counts.records :
                                                x[1].asset_key = asset_key}
                                       ELSE {}),
                      !.result_asset_partitions =
                          @ \cup ChildrenNotPlannedInRun(asset_key, latest_record)
                            \cup (IF is_partitioned(asset_key)
                                  THEN ChildrenOfPartitions(
                                           asset_key, partition_keys,
                                           call.latest_storage_id, call.evaluation_time)
                                  ELSE {}),
                      !.result_latest_storage_id = Max2(@, latest_record.storage_id)]
    /\ UNCHANGED <<graph, asset_graph, now, last_storage_id, latest, runs, backfills,
                   stored_cursor, tick>>

NextScan ==
    \/ /\ call = NoCall
       /\ \E latest_storage_id \in {NoStorageId, 1} : ScanStart(latest_storage_id)
    \/ /\ call # NoCall
       /\ ScanPrefetchPartitionCounts
    \/ /\ call # NoCall
       /\ \E asset_key \in call.pending : ScanParent(asset_key)
    \/ /\ call = NoCall
       /\ AdvanceTime
    \/ /\ IF call = NoCall THEN TRUE ELSE call.pending # {}
       /\ \E ap \in AllAssetPartitions : Materialize(ap.asset_key, ap.partition_key)

SpecScan == Init /\ [][NextScan]_vars

----------------------------------------------------------------------------
(* The closure, one dequeued unit per step.  bfs_filter_asset_partitions   *)
(* keeps a queue ordered by toposort level, the set of the nodes it has    *)
(* ever enqueued and the result; each step takes a unit of the lowest      *)
(* level from the queue, evaluates should_reconcile on it and, if it is    *)
(* accepted, adds it to the result and enqueues its children that were     *)
(* never enqueued.                                                         *)

\* determine_asset_partitions_to_reconcile has run its detectors and calls
\* bfs_filter_asset_partitions on their seeds
ClosureStart(cursor) ==
    /\ call = NoCall
    /\ LET roots == find_never_materialized_or_requested_root_asset_partitions(
                        cursor, now)
           stale == find_parent_materialized_asset_partitions(
                        cursor.latest_storage_id, now)
       IN  call' = [fn |-> "bfs_filter_asset_partitions",
                    seeds |-> roots[1] \cup stale[1],
                    queue |-> roots[1] \cup stale[1],
                    all_nodes |-> roots[1] \cup stale[1],
                    result |-> {},
                    rejected |-> {},
                    evaluations |-> 0,
                    eventual |-> determine_asset_partitions_to_reconcile_for_freshness(
                                     CachingDataTimeResolver(now), now)[2],
                    evaluation_time |-> now]
    /\ UNCHANGED <<graph, asset_graph, now, last_storage_id, latest, runs, backfills,
                   stored_cursor, tick>>

\* a step that keeps the unit it has accepted last as the result
ClosureStepKeepingLastUnit(item) ==
    /\ call # NoCall
    /\ item \in call.queue
    /\ \A o \in call.queue : QueueItemLevel(item) <= QueueItemLevel(o)
    /\ LET candidates_unit == QueueItemUnit(item)
           new == UNION {get_children_partitions(c.asset_key, c.partition_key) :
                         c \in candidates_unit} \ call.all_nodes
       IN  call' =
              IF should_reconcile(candidates_unit, call.result, call.eventual,
                                  get_active_backfill_target_asset_graph_subset,
                                  call.evaluation_time)
              THEN [call EXCEPT !.queue = (@ \ {item}) \cup new,
                                !.all_nodes = @ \cup new,
                                !.result = candidates_unit,
                                !.evaluations = @ + 1]
              ELSE [call EXCEPT !.queue = @ \ {item},
                                !.rejected = @ \cup candidates_unit,
                                !.evaluations = @ + 1]
    /\ UNCHANGED <<graph, asset_graph, now, last_storage_id, latest, runs, backfills,
                   stored_cursor, tick>>

\* one iteration of the loop of bfs_filter_asset_partitions
ClosureStep(item) ==
    /\ call # NoCall
    /\ item \in call.queue
    /\ \A o \in call.queue : QueueItemLevel(item) <= QueueItemLevel(o)
    /\ LET candidates_unit == QueueItemUnit(item)
           new == UNION {get_children_partitions(c.asset_key, c.partition_key) :
                         c \in candidates_unit} \ call.all_nodes
       IN  call' =
              IF should_reconcile(candidates_unit, call.result, call.eventual,
                                  get_active_backfill_target_asset_graph_subset,
                                  call.evaluation_time)
              THEN [call EXCEPT !.queue = (@ \ {item}) \cup new,
                                !.all_nodes = @ \cup new,
                                !.result = @ \cup candidates_unit,
                                !.evaluations = @ + 1]
              ELSE [call EXCEPT !.queue = @ \ {item},
                                !.rejected = @ \cup candidates_unit,
                                !.evaluations = @ + 1]
    /\ UNCHANGED <<graph, asset_graph, now, last_storage_id, latest, runs, backfills,
                   stored_cursor, tick>>

NextClosure ==
    \/ /\ call = NoCall
       /\ \E latest_storage_id \in {NoStorageId, 1} :
             ClosureStart(AssetReconciliationCursor(latest_storage_id, {}, EmptyMapping))
    \/ /\ call # NoCall
       /\ \E item \in call.queue : ClosureStep(item)
    \/ /\ call = NoCall
       /\ AdvanceTime
    \/ /\ call = NoCall
       /\ \E ap \in AllAssetPartitions : Materialize(ap.asset_key, ap.partition_key)

SpecClosure == Init /\ [][NextClosure]_vars

----------------------------------------------------------------------------
(* Properties of the functions *)

\* C1: with_updates, called with an old and a new latest_storage_id that
\* are both set, fails its check exactly when the new one is smaller than
\* the old one; otherwise it returns a cursor whose latest_storage_id is
\* the new one, or the old one when the new one is missing, and so is never
\* below the old one; the cursor the sensor persists after the call (the
\* old one after a failed check) never has a smaller latest_storage_id.
C1_with_updates_monotonic ==
    call.fn = "with_updates" =>
        LET old == call.cursor.latest_storage_id
            new == call.latest_storage_id
        IN  /\ call.result = CheckError
                  <=> (old # NoStorageId /\ new # NoStorageId /\ new < old)
            /\ call.result # CheckError =>
                  /\ call.result.latest_storage_id >= old
                  /\ call.result.latest_storage_id =
                         IF new = NoStorageId THEN old ELSE new
            /\ from_serialized(call.persisted).latest_storage_id >= old

\* a call with a new latest_storage_id below the old one has failed its check
C1_witness ==
    /\ call.fn = "with_updates"
    /\ call.latest_storage_id # NoStorageId
    /\ call.latest_storage_id < call.cursor.latest_storage_id
    /\ call.result = CheckError
    /\ from_serialized(call.persisted).latest_storage_id
           = call.cursor.latest_storage_id

\* two periods that overlap as [10:00,10:30) and [10:15,10:45) do
Overlapping(p1, p2) ==
    p1.start < p2.start /\ p2.start < p1.end /\ p1.end < p2.end

RequestsTargeting(run_requests, asset_key) ==
    {rr \in run_requests : asset_key \in rr.asset_selection}

\* C9: for two policies whose execution periods overlap as [10:00,10:30)
\* and [10:15,10:45) do, get_execution_period_for_policies returns the
\* period from the later start to the later end, [10:15,10:45); the asset
\* the two policies are downstream of is targeted by no run request before
\* the evaluation time has reached that start and by exactly one from then
\* on.
C9_merged_period_starts_at_later_start ==
    /\ call.fn = "get_execution_period_for_policies" =>
          \A p1 \in call.periods, p2 \in call.periods :
              Overlapping(p1, p2) => call.result = Period(p2.start, p2.end)
    /\ call.fn = "determine_asset_partitions_to_reconcile_for_freshness" =>
          \A key \in asset_graph.keys :
              \A p1 \in call.periods[key], p2 \in call.periods[key] :
                  Overlapping(p1, p2) =>
                      Cardinality(RequestsTargeting(call.run_requests, key))
                          = IF call.evaluation_time >= p2.start THEN 1 ELSE 0

\* the freshness pass has scheduled one materialization of an asset with
\* two overlapping periods
C9_witness ==
    /\ call.fn = "determine_asset_partitions_to_reconcile_for_freshness"
    /\ \E key \in asset_graph.keys :
          /\ \E p1 \in call.periods[key], p2 \in call.periods[key] :
                Overlapping(p1, p2)
          /\ Cardinality(RequestsTargeting(call.run_requests, key)) = 1

\* C9 as the claim states it: the merged period of two periods that overlap
\* as [10:00,10:30) and [10:15,10:45) do is the union [10:00,10:45).
C9_merged_period_is_union ==
    call.fn = "get_execution_period_for_policies" =>
        \A p1 \in call.periods, p2 \in call.periods :
            Overlapping(p1, p2) => call.result = Period(p1.start, p2.end)

\* C10: a time partition is within the allowable window, and is one of the
\* never requested partitions of a root, exactly when its window starts
\* after (start of the latest window - 1 day), that is at or after that
\* instant plus the clock's resolution; the partition whose window starts
\* exactly at (start of the latest window - 1 day) is outside of it.
C10_window_starts_after_one_day_back ==
    call.fn = "candidates_unit_within_allowable_time_window" =>
        LET latest_partition_window ==
                get_last_partition_window(call.partitions_def, call.evaluation_time)
            candidate_partition_window ==
                time_window_for_partition_key(call.partitions_def, call.partition_key)
        IN  /\ call.within
                  <=> candidate_partition_window.start
                          >= latest_partition_window.start - Day + Resolution
            /\ candidate_partition_window.start = latest_partition_window.start - Day
                  => ~call.within
            /\ call.never_requested <=> call.within

\* a partition whose window starts exactly one day before the latest one
\* has been found outside the window, and one whose window starts one
\* resolution step later inside
C10_witness ==
    /\ call.fn = "candidates_unit_within_allowable_time_window"
    /\ LET latest_partition_window ==
               get_last_partition_window(call.partitions_def, call.evaluation_time)
           candidate_partition_window ==
               time_window_for_partition_key(call.partitions_def, call.partition_key)
       IN  /\ candidate_partition_window.start = latest_partition_window.start - Day
           /\ ~call.within

\* C10 as the claim states it: the partition whose window starts exactly at
\* (start of the latest window - 1 day) is within the allowable window, a
\* partition whose window starts earlier is not.
C10_boundary_partition_included ==
    call.fn = "candidates_unit_within_allowable_time_window" =>
        LET latest_partition_window ==
                get_last_partition_window(call.partitions_def, call.evaluation_time)
            candidate_partition_window ==
                time_window_for_partition_key(call.partitions_def, call.partition_key)
        IN  /\ candidate_partition_window.start = latest_partition_window.start - Day
                  => call.within
            /\ candidate_partition_window.start < latest_partition_window.start - Day
                  => ~call.within

\* C11: for every cursor of the graph (latest_storage_id missing or set; no,
\* one or several unpartitioned root keys; for the partitioned roots no
\* entry, an empty, a one-partition or a several-partition subset), with
\* keys of one or two components, from_serialized of its serialization is
\* the cursor itself, and the serialization is not the cursor: the keys are
\* user strings and the time-window subsets are lists of windows.
C11_cursor_round_trip ==
    call.fn = "serialize" => call.result = call.cursor

\* a cursor with a set watermark, two root keys of two components, a static
\* subset of two partitions and a time-window subset that is one window
C11_witness ==
    /\ call.fn = "serialize"
    /\ call.cursor.latest_storage_id # NoStorageId
    /\ Cardinality(call.cursor.materialized_or_requested_root_asset_keys) = 2
    /\ \A k \in call.cursor.materialized_or_requested_root_asset_keys : Len(k) = 2
    /\ \E k \in DOMAIN call.cursor.materialized_or_requested_root_partitions_by_asset_key :
          /\ get_partitions_def(k).kind = "time"
          /\ call.cursor.materialized_or_requested_root_partitions_by_asset_key[k] = {0, 1}
          /\ call.serialized.root_partitions_by_asset_key[to_user_string(k)]
                 = {TimeWindow(0, 2 * Day)}
    /\ \E k \in DOMAIN call.cursor.materialized_or_requested_root_partitions_by_asset_key :
          /\ get_partitions_def(k).kind = "static"
          /\ call.cursor.materialized_or_requested_root_partitions_by_asset_key[k] = {0, 1}
    /\ call.serialized.root_asset_keys
          = {<<"n", "/", "a">>, <<"n", "/", "b">>}
    /\ call.result = call.cursor

\* C12: a tick that fails (a query that raises, a stored cursor that does not
\* load, check.failed in build_run_requests for a partition key of an asset
\* without partitions, the check of with_updates on a smaller storage id)
\* returns no run request and leaves context.cursor as it was; a tick fails
\* in these cases only, and one that does not fail leaves the serialization
\* of the one cursor with_updates has returned.
C12_failed_tick_keeps_cursor ==
    /\ call.fn = "_sensor" =>
          /\ call.outcome.error <=> (call.query_fails \/ call.loaded = CursorError)
          /\ call.outcome.error =>
                (call.outcome.stored = call.content /\ call.outcome.run_requests = {})
          /\ ~call.outcome.error => call.outcome.run_requests = call.would_request
    /\ call.fn = "build_run_requests" =>
          /\ call.outcome.error <=>
                \/ call.check_failed
                \/ /\ call.latest_storage_id # NoStorageId
                   /\ call.latest_storage_id < call.cursor.latest_storage_id
          /\ call.outcome.error =>
                /\ call.outcome.stored = json_dumps(serialize(call.cursor))
                /\ call.outcome.run_requests = {}
          /\ ~call.outcome.error =>
                /\ call.outcome.stored = json_dumps(serialize(call.updated_cursor))
                /\ call.outcome.run_requests = call.built

\* a tick that has decided a unit of a partitioned asset and a unit with a
\* partition key for an asset without partitions, with a newer storage id
C12_witness ==
    /\ call.fn = "build_run_requests"
    /\ call.check_failed
    /\ \E ap \in call.asset_partitions : is_partitioned(ap.asset_key)
    /\ call.latest_storage_id = MaxStorageId
    /\ call.cursor = empty
    /\ call.outcome.error
    /\ call.outcome.run_requests = {}
    /\ call.outcome.stored = json_dumps(serialize(empty))

\* a stored content that is the serialization of a cursor of the graph
IsSerializedCursor(content) ==
    /\ content.t = "list"
    /\ Len(content.items) = 3
    /\ content.items[1].t \in {"null", "int"}
    /\ content.items[2].t = "list"
    /\ \A i \in DOMAIN content.items[2].items : content.items[2].items[i].t = "str"
    /\ content.items[3].t = "dict"
    /\ \A key_str \in DOMAIN content.items[3].mapping :
          /\ from_user_string(key_str) \in asset_graph.keys
          /\ is_partitioned(from_user_string(key_str))
          /\ content.items[3].mapping[key_str].t = "subset"

\* C13: _sensor starts from the empty cursor when context.cursor is None or
\* the empty string; on any other content that is no serialized cursor the
\* tick fails.
C13_malformed_cursor_fails ==
    (call.fn = "_sensor" /\ ~call.query_fails) =>
        /\ call.content \in {NoCursor, EmptyText} =>
              (call.loaded = empty /\ ~call.outcome.error)
        /\ (call.content \notin {NoCursor, EmptyText}
              /\ ~IsSerializedCursor(call.content)) => call.outcome.error

----------------------------------------------------------------------------
(* Properties of the sensor.  `tick` is the record of the tick that has    *)
(* just run: nothing but the launch of its runs has happened since, so the *)
(* event log, the backfills and the clock are those the tick has read.     *)

\* the asset partitions the run requests of the tick target
RequestedAssetPartitions ==
    UNION {{AssetKeyPartitionKey(k, rr.partition_key) : k \in rr.asset_selection} :
           rr \in tick.run_requests}

NeverMaterialized(asset_partition) ==
    get_latest_materialization_record(asset_partition, NoStorageId) = NoRecord

\* the cursor records the root asset partition as materialized or requested
Recorded(cursor, asset_partition) ==
    IF asset_partition.partition_key = NoPartition
    THEN asset_partition.asset_key \in cursor.materialized_or_requested_root_asset_keys
    ELSE asset_partition.partition_key
            \in GetOrEmpty(cursor.materialized_or_requested_root_partitions_by_asset_key,
                           asset_partition.asset_key)

\* the root assets of the selection that are unpartitioned and have no
\* freshness policy on them or downstream of them
PlainRoots ==
    {k \in target_root_asset_keys :
        ~is_partitioned(k) /\ get_downstream_freshness_policies(k) = {}}

InActiveBackfill(asset_partition) ==
    \E i \in DOMAIN backfills :
        /\ backfills[i].status = "REQUESTED"
        /\ backfills[i].is_asset_backfill
        /\ asset_partition \in backfills[i].target_subset

C3_second_tick_requests_nothing ==
    tick.ran => reconcile(context_cursor, now).run_requests = {}

\* a tick that followed a tick that had requested runs, with nothing in
\* between, has requested none
C3_witness ==
    /\ tick.ran
    /\ tick.was_quiet
    /\ tick.was_requesting
    /\ tick.run_requests = {}

\* C4: no run request of a tick targets an asset partition that is in the
\* target of an asset backfill whose status is REQUESTED at that tick.
C4_no_request_in_active_backfill ==
    tick.ran => \A ap \in RequestedAssetPartitions : ~InActiveBackfill(ap)

FinishedStatuses == {"CANCELED", "FAILED", "COMPLETED"}

\* C5: the exclusion set a tick computes is the union of the targets of the
\* asset backfills that are REQUESTED at that tick: it contains no asset
\* partition that only backfills that are CANCELED, FAILED or COMPLETED
\* target, and should_reconcile decides on such an asset partition as it
\* does without any backfill.
C5_finished_backfill_excludes_nothing ==
    tick.ran =>
        \A ap \in AllAssetPartitions :
            /\ ap \in tick.backfill_target_asset_graph_subset <=> InActiveBackfill(ap)
            /\ ~InActiveBackfill(ap) =>
                  should_reconcile(QueueItemUnit(ap), tick.to_reconcile,
                                   tick.eventual_for_freshness,
                                   tick.backfill_target_asset_graph_subset, now)
                  = should_reconcile(QueueItemUnit(ap), tick.to_reconcile,
                                     tick.eventual_for_freshness, {}, now)

\* a tick has requested an asset partition in the target of a backfill
\* that is CANCELED, FAILED or COMPLETED
C5_witness ==
    /\ tick.ran
    /\ \E i \in DOMAIN backfills :
          /\ backfills[i].is_asset_backfill
          /\ backfills[i].status \in FinishedStatuses
          /\ backfills[i].target_subset \cap RequestedAssetPartitions # {}

Unit(name) == AssetKeyPartitionKey(<< <<name>> >>, NoPartition)

StorageIdOf(name) == latest[Unit(name)].storage_id

\* C6: on the diamond graph, a tick that finds a and b materialized, one of
\* them since its cursor, and d and e never materialized, decides exactly
\* {d, e} and requests them in one run; no tick decides e unless d is
\* reconciled or decided by the same tick.
C6_diamond_decides_d_and_e_together ==
    (graph = "diamond" /\ tick.ran) =>
        /\ ( /\ ~NeverMaterialized(Unit("a")) /\ ~NeverMaterialized(Unit("b"))
             /\ NeverMaterialized(Unit("d")) /\ NeverMaterialized(Unit("e"))
             /\ \/ StorageIdOf("a") > tick.cursor.latest_storage_id
                \/ StorageIdOf("b") > tick.cursor.latest_storage_id )
           => /\ tick.to_reconcile = {Unit("d"), Unit("e")}
              /\ tick.run_requests
                     = {RunRequest({<< <<"d">> >>, << <<"e">> >>}, NoPartition)}
        /\ Unit("e") \in tick.to_reconcile =>
              Unit("d") \in tick.to_reconcile \/ is_reconciled(Unit("d"))

\* a tick on the diamond graph has decided d and e, which were never
\* materialized
C6_witness ==
    /\ graph = "diamond"
    /\ tick.ran
    /\ NeverMaterialized(Unit("d"))
    /\ NeverMaterialized(Unit("e"))
    /\ tick.to_reconcile = {Unit("d"), Unit("e")}

\* C7: every parent of an asset partition that
\* determine_asset_partitions_to_reconcile returns is in the returned set
\* with the same partitioning and partition key, or is reconciled; and the
\* group each returned asset partition was accepted in has a member that is
\* not reconciled.
C7_parents_before_children ==
    tick.ran =>
        \A ap \in tick.to_reconcile :
            /\ \A parent \in get_parents_partitions(ap.asset_key, ap.partition_key) :
                  \/ /\ parent \in tick.to_reconcile
                     /\ have_same_partitioning(parent.asset_key, ap.asset_key)
                     /\ parent.partition_key = ap.partition_key
                  \/ is_reconciled(parent)
            /\ \E candidate \in QueueItemUnit(ap) : ~is_reconciled(candidate)

\* a tick has decided an asset partition one of whose parents it has decided
\* too and another of whose parents is reconciled
C7_witness ==
    /\ tick.ran
    /\ \E ap \in tick.to_reconcile :
          /\ \E parent \in get_parents_partitions(ap.asset_key, ap.partition_key) :
                parent \in tick.to_reconcile /\ ~is_reconciled(parent)
          /\ \E parent \in get_parents_partitions(ap.asset_key, ap.partition_key) :
                parent \notin tick.to_reconcile /\ is_reconciled(parent)

\* the latest materialization of the root is one the cursor of the tick has
\* not seen, and is later than those of d, e and f
NewlyMaterialized(name) ==
    /\ StorageIdOf(name) > tick.cursor.latest_storage_id
    /\ \A child \in {"d", "e", "f"} : StorageIdOf(name) > StorageIdOf(child)

DocstringRunRequests ==
    {RunRequest({<< <<"d">> >>, << <<"e">> >>, << <<"f">> >>}, NoPartition)}

\* C8: on the graph of the docstring, a tick that finds a, b and c newly
\* materialized emits one run request, for {d, e, f}; and so does a tick that
\* finds a and b newly materialized and c materialized before its cursor.
C8_docstring_requests_d_e_f ==
    (graph = "docstring" /\ tick.ran) =>
        /\ (NewlyMaterialized("a") /\ NewlyMaterialized("b") /\ NewlyMaterialized("c"))
              => tick.run_requests = DocstringRunRequests
        /\ ( /\ NewlyMaterialized("a") /\ NewlyMaterialized("b")
             /\ StorageIdOf("c") # NoStorageId
             /\ StorageIdOf("c") <= tick.cursor.latest_storage_id )
              => tick.run_requests = DocstringRunRequests

\* a tick has requested {d, e, f} after a and b were materialized again and
\* c was not
C8_witness ==
    /\ graph = "docstring"
    /\ tick.ran
    /\ NewlyMaterialized("a")
    /\ NewlyMaterialized("b")
    /\ StorageIdOf("c") # NoStorageId
    /\ StorageIdOf("c") <= tick.cursor.latest_storage_id
    /\ tick.run_requests = DocstringRunRequests

\* C14: a tick that emits a run request for partition p of a partitioned
\* asset R without upstream returns a cursor that has p in R's subset of
\* materialized or requested partitions and has not R among the
\* unpartitioned roots; no tick takes a partition out of a subset; and the
\* root detector, on the cursor a tick starts from, yields no partition that
\* the cursor has in a subset: so no later tick yields (R, p) again.
C14_requested_root_partition_recorded ==
    /\ (tick.ran /\ ~tick.error) =>
          /\ \A rr \in tick.run_requests : \A k \in rr.asset_selection :
                (rr.partition_key # NoPartition /\ ~has_non_source_parents(k)) =>
                    /\ rr.partition_key \in
                           GetOrEmpty(tick.updated_cursor.materialized_or_requested_root_partitions_by_asset_key, k)
                    /\ k \notin tick.updated_cursor.materialized_or_requested_root_asset_keys
          /\ \A k \in DOMAIN tick.cursor.materialized_or_requested_root_partitions_by_asset_key :
                tick.cursor.materialized_or_requested_root_partitions_by_asset_key[k]
                    \subseteq GetOrEmpty(tick.updated_cursor.materialized_or_requested_root_partitions_by_asset_key, k)
    /\ \A k \in DOMAIN context_cursor.materialized_or_requested_root_partitions_by_asset_key :
          \A p \in context_cursor.materialized_or_requested_root_partitions_by_asset_key[k] :
              AssetKeyPartitionKey(k, p) \notin
                  find_never_materialized_or_requested_root_asset_partitions(
                      context_cursor, now)[1]

\* the tick after one that has requested both partitions of the static
\* root: neither has been materialized, and the tick requests nothing
C14_witness ==
    /\ graph = "static"
    /\ tick.ran /\ tick.was_requesting
    /\ tick.cursor.materialized_or_requested_root_partitions_by_asset_key
          = (<< <<"t">> >> :> {0, 1})
    /\ \A p \in {0, 1} : latest[AssetKeyPartitionKey(<< <<"t">> >>, p)] = NoRecord
    /\ tick.never_materialized_or_requested_roots = {}
    /\ tick.run_requests = {}

\* the requests of a batch that cover an asset partition
RequestsCovering(run_requests, asset_partition) ==
    {rr \in run_requests :
        /\ asset_partition.asset_key \in rr.asset_selection
        /\ rr.partition_key = asset_partition.partition_key}

\* C15: build_run_requests emits one run request per distinct pair of
\* partitions definition and partition key among the decided units, with
\* exactly the asset keys of the units of that pair: every decided unit is
\* covered by exactly one request, two units share their request exactly if
\* they share definition and partition key, every asset of a request is a
\* decided unit under the request's partition key, and no request mixes two
\* partitions definitions.  (A partition key decided for an asset without
\* partitions fails the check of the batcher: no request is built.)
C15_one_request_per_definition_and_key ==
    (call # NoCall /\ call.fn = "build_run_requests") =>
        IF call.check_failed THEN call.built = {}
        ELSE /\ Cardinality(call.built)
                  = Cardinality({<<get_partitions_def(ap.asset_key), ap.partition_key>> :
                                    ap \in call.asset_partitions})
             /\ \A ap \in call.asset_partitions :
                    Cardinality(RequestsCovering(call.built, ap)) = 1
             /\ \A ap \in call.asset_partitions, other \in call.asset_partitions :
                    (RequestsCovering(call.built, ap) = RequestsCovering(call.built, other))
                    <=> /\ get_partitions_def(ap.asset_key) = get_partitions_def(other.asset_key)
                        /\ ap.partition_key = other.partition_key
             /\ \A rr \in call.built :
                    /\ rr.asset_selection # {}
                    /\ \A k \in rr.asset_selection :
                          AssetKeyPartitionKey(k, rr.partition_key) \in call.asset_partitions
                    /\ \A k \in rr.asset_selection, other \in rr.asset_selection :
                          get_partitions_def(k) = get_partitions_def(other)

\* partition 0 of a static root, of its child and of a daily root: the
\* static assets share a request, the daily root has its own
C15_witness ==
    /\ call # NoCall /\ call.fn = "build_run_requests"
    /\ graph = "nested"
    /\ call.asset_partitions
          = {AssetKeyPartitionKey(<< <<"t">> >>, 0),
             AssetKeyPartitionKey(<< <<"t">>, <<"c">> >>, 0),
             AssetKeyPartitionKey(<< <<"n">>, <<"d">> >>, 0)}
    /\ call.built = {RunRequest({<< <<"t">> >>, << <<"t">>, <<"c">> >>}, 0),
                     RunRequest({<< <<"n">>, <<"d">> >>}, 0)}

BackfillStatusEdges ==
    {<<"REQUESTED", "COMPLETED">>, <<"REQUESTED", "CANCELED">>,
     <<"REQUESTED", "FAILED">>, <<"REQUESTED", "CANCELING">>,
     <<"CANCELING", "CANCELED">>, <<"FAILED", "REQUESTED">>}

\* C16: in every step every backfill of the store stays in the store, and
\* its status either stays or changes along one of the edges
\* REQUESTED->COMPLETED, REQUESTED->CANCELED, REQUESTED->FAILED,
\* REQUESTED->CANCELING, CANCELING->CANCELED, FAILED->REQUESTED (so none
\* leaves COMPLETED or CANCELED); a backfill new in the store is REQUESTED.
C16_backfill_status_edges ==
    [][/\ \A i \in DOMAIN backfills :
             /\ i \in DOMAIN backfills'
             /\ backfills'[i].status # backfills[i].status =>
                    <<backfills[i].status, backfills'[i].status>> \in BackfillStatusEdges
       /\ \A i \in DOMAIN backfills' \ DOMAIN backfills :
             backfills'[i].status = "REQUESTED"]_vars

\* a backfill that was launched and then cancelled, after a tick has left a
\* run in flight
C16_witness ==
    /\ \E i \in DOMAIN backfills : backfills[i].status = "CANCELED"
    /\ runs # <<>>

\* C17: the cancel mutation on a backfill that is REQUESTED returns
\* CancelBackfillSuccess and the status query that follows it reports
\* CANCELED, whatever the status of the runs of the backfill's units (runs
\* not started or in flight included); nothing else of the backfill changes.
C17_cancel_takes_effect_immediately ==
    (/\ call # NoCall /\ call.fn = "cancelPartitionBackfill"
     /\ call.backfill.status = "REQUESTED") =>
        /\ call.typename = "CancelBackfillSuccess"
        /\ call.queried.status = "CANCELED"
        /\ backfills = <<with_status(call.backfill, "CANCELED")>>

\* the cancelled backfill had a run in flight
C17_witness ==
    /\ call # NoCall /\ call.fn = "cancelPartitionBackfill"
    /\ call.backfill.status = "REQUESTED"
    /\ call.queried.numCancelable > 0
    /\ \E u \in DOMAIN call.unit_status : call.unit_status[u] = "STARTED"
    /\ call.queried.status = "CANCELED"

\* C18: the resume mutation on a backfill that is FAILED returns
\* ResumeBackfillSuccess; the store then holds, under the same id and with
\* the same target subset and partition names, that backfill in REQUESTED,
\* and no other backfill; the status query reports REQUESTED, and the target
\* subset of an asset backfill is again in the exclusion set of the engine.
C18_resume_puts_back_into_requested ==
    (/\ call # NoCall /\ call.fn = "resumePartitionBackfill"
     /\ call.backfill.status = "FAILED") =>
        /\ call.typename = "ResumeBackfillSuccess"
        /\ DOMAIN backfills = {call.backfill_id}
        /\ backfills[call.backfill_id].status = "REQUESTED"
        /\ backfills[call.backfill_id].target_subset = call.backfill.target_subset
        /\ backfills[call.backfill_id].partition_names = call.backfill.partition_names
        /\ call.queried.status = "REQUESTED"
        /\ call.queried.partitionNames = call.backfill.partition_names
        /\ call.backfill.target_subset
              \subseteq get_active_backfill_target_asset_graph_subset

\* a failed asset backfill was resumed: its target is excluded again
C18_witness ==
    /\ call # NoCall /\ call.fn = "resumePartitionBackfill"
    /\ call.backfill.status = "FAILED"
    /\ call.backfill.is_asset_backfill
    /\ call.queried.status = "REQUESTED"
    /\ get_active_backfill_target_asset_graph_subset
          = {AssetKeyPartitionKey(<< <<"r">> >>, NoPartition)}

\* C19: a tick leaves the backfill store as it was (the status, the target
\* subset and the partition names of every backfill, and the set of
\* backfills), and what it has read of the store is the target subsets of
\* the asset backfills that are REQUESTED.
C19_tick_leaves_backfills_unchanged ==
    [][tick'.ran =>
          /\ backfills' = backfills
          /\ tick'.backfill_target_asset_graph_subset
                = UNION {backfills[i].target_subset :
                            i \in {j \in DOMAIN backfills :
                                      /\ backfills[j].status = "REQUESTED"
                                      /\ backfills[j].is_asset_backfill}}]_vars

\* a tick has run while an asset backfill was REQUESTED and has excluded its
\* target; the backfill is still REQUESTED
C19_witness ==
    /\ tick.ran
    /\ tick.backfill_target_asset_graph_subset # {}
    /\ \E i \in DOMAIN backfills :
          /\ backfills[i].status = "REQUESTED"
          /\ backfills[i].is_asset_backfill
          /\ backfills[i].target_subset = tick.backfill_target_asset_graph_subset

\* the partitions definitions that the selected assets carry
SelectedPartitionsDefs(selected_asset_keys) ==
    {get_partitions_def(k) : k \in selected_asset_keys} \ {Unpartitioned}

\* C20: resolve, called with arguments it accepts, raises
\* DagsterInvalidDefinitionError and builds no job when the selected assets
\* carry more than one partitions definition, when the explicit
\* partitions_def differs from the single definition of the selected assets,
\* and when an explicit partitions_def is given and no selected asset is
\* partitioned; in every other case it builds the job of the selected assets
\* with the explicit definition or, without one, with the single definition
\* of the selected assets (none for unpartitioned assets).
C20_resolve_partitions_def ==
    (/\ call # NoCall /\ call.fn = "resolve"
     /\ call.arguments \in {"asset_graph", "assets and source_assets"}) =>
        IF \/ Cardinality(SelectedPartitionsDefs(call.selected_asset_keys)) > 1
           \/ /\ call.partitions_def # Unpartitioned
              /\ SelectedPartitionsDefs(call.selected_asset_keys) # {call.partitions_def}
        THEN /\ call.result.error = "DagsterInvalidDefinitionError"
             /\ ~call.result.built
        ELSE /\ call.result.error = "none"
             /\ call.result.built
             /\ call.result.asset_selection = call.selected_asset_keys
             /\ IF call.partitions_def # Unpartitioned
                THEN call.result.partitions_def = call.partitions_def
                ELSE SelectedPartitionsDefs(call.selected_asset_keys)
                        \subseteq {call.result.partitions_def}
             /\ (call.result.partitions_def = Unpartitioned) <=>
                    (call.partitions_def = Unpartitioned
                     /\ SelectedPartitionsDefs(call.selected_asset_keys) = {})

\* a job with three static partitions on two assets that have two: no job
C20_witness ==
    /\ call # NoCall /\ call.fn = "resolve"
    /\ graph = "nested"
    /\ call.arguments = "asset_graph"
    /\ call.partitions_def = StaticPartitionsDefinition(3)
    /\ call.selected_asset_keys = {<< <<"t">> >>, << <<"t">>, <<"c">> >>}
    /\ call.result.error = "DagsterInvalidDefinitionError"

RejectedStaleCandidates ==
    tick.stale_candidates \ (tick.to_reconcile \cup tick.to_reconcile_for_freshness)

\* C22: a unit that the propagation detector has found in a tick and that
\* the tick has not requested is found by the propagation detector again in
\* a tick that starts from the cursor the tick has stored, with no
\* materialization in between.
C22_rejected_candidate_found_again ==
    (tick.ran /\ ~tick.error) =>
        \A unit \in RejectedStaleCandidates :
            unit \in find_parent_materialized_asset_partitions(
                         context_cursor.latest_storage_id, now)[1]

\* C23: when the detector has scanned every parent, while materializations
\* were stored in between, every record of a parent that is not a source
\* whose storage id is above the input watermark and at most the returned
\* one was in the event log when its asset was scanned: its children were
\* considered.
C23_no_parent_record_skipped ==
    (call # NoCall /\ call.fn = "find_parent_materialized_asset_partitions"
     /\ call.pending = {}) =>
        \A asset_key \in {k \in target_parent_asset_keys : ~is_source(k)} :
            \A record \in RecordsAfter(asset_key, call.latest_storage_id) :
                record[2] <= call.result_latest_storage_id => record \in call.seen

\* a scan has finished and returns a higher watermark, and a parent was
\* materialized after the prefetch, above the returned watermark
C23_witness ==
    /\ call # NoCall /\ call.fn = "find_parent_materialized_asset_partitions"
    /\ call.pending = {}
    /\ call.result_latest_storage_id > call.latest_storage_id
    /\ \E asset_key \in {k \in target_parent_asset_keys : ~is_source(k)} :
          /\ RecordsAfter(asset_key, call.result_latest_storage_id) # {}
          /\ call.asset_records[asset_key].storage_id = NoStorageId

\* a scan that no materialization has interrupted returns what the detector
\* returns on the event log
ScanAgreesWithDetector ==
    (call # NoCall /\ call.fn = "find_parent_materialized_asset_partitions"
     /\ call.pending = {} /\ call.started_at = last_storage_id) =>
        <<call.result_asset_partitions, call.result_latest_storage_id>>
            = find_parent_materialized_asset_partitions(
                  call.latest_storage_id, call.evaluation_time)

\* the latest records after the cursor that the scan was given, one for
\* each parent that is not a source and has one
ScannedLatestRecords ==
    {call.asset_records[asset_key] :
        asset_key \in {k \in target_parent_asset_keys :
                          /\ ~is_source(k)
                          /\ call.asset_records[k].storage_id # NoStorageId
                          /\ call.asset_records[k].storage_id > call.latest_storage_id}}

\* C24: the watermark the detector returns is the greatest of the input
\* watermark and the storage ids of the latest records after it of the
\* scanned parents, in whatever order the parents are scanned; when no
\* parent has a record after the input watermark it is the input watermark.
C24_returned_watermark_is_maximum ==
    (call # NoCall /\ call.fn = "find_parent_materialized_asset_partitions"
     /\ call.pending = {}) =>
        /\ call.result_latest_storage_id =
               SetMax({call.latest_storage_id}
                      \cup {record.storage_id : record \in ScannedLatestRecords})
        /\ ScannedLatestRecords = {} =>
               call.result_latest_storage_id = call.latest_storage_id

\* a scan has finished on two parents with records after a watermark that
\* is set
C24_witness ==
    /\ call # NoCall /\ call.fn = "find_parent_materialized_asset_partitions"
    /\ call.pending = {}
    /\ call.latest_storage_id # NoStorageId
    /\ Cardinality(ScannedLatestRecords) >= 2

\* a scan has finished without any record after the watermark, on an event
\* log that is not empty
C24_witness_unchanged ==
    /\ call # NoCall /\ call.fn = "find_parent_materialized_asset_partitions"
    /\ call.pending = {}
    /\ call.latest_storage_id # NoStorageId
    /\ call.started_at > NoStorageId
    /\ ScannedLatestRecords = {}

\* the partitions of the parents of child that are not sources and were
\* materialized after the watermark the tick was given
ParentsMaterializedAfterWatermark(child) ==
    {parent \in DOMAIN latest :
        /\ ~is_source(parent.asset_key)
        /\ child \in get_children_partitions(parent.asset_key, parent.partition_key)
        /\ latest[parent].storage_id # NoStorageId
        /\ latest[parent].storage_id > tick.cursor.latest_storage_id}

\* C25: every child the propagation detector returns has its key in the
\* target selection and a parent partition, not of a source, mapped to it,
\* whose latest materialization is after the watermark and belongs to no
\* run that planned the child: a record of a run that planned the child
\* brings the child in no result.
C25_same_run_exclusion ==
    (tick.ran /\ ~tick.error) =>
        \A child \in tick.stale_candidates :
            /\ child.asset_key \in target_asset_keys
            /\ \E parent \in ParentsMaterializedAfterWatermark(child) :
                  ~is_asset_planned_for_run(latest[parent].run_id, child)

\* a tick has found a parent materialized after the watermark by a run that
\* planned the child too, and has not returned the child
C25_witness ==
    /\ tick.ran /\ ~tick.error
    /\ \E child \in AllAssetPartitions :
          /\ child.asset_key \in target_asset_keys
          /\ child \notin tick.stale_candidates
          /\ \E parent \in ParentsMaterializedAfterWatermark(child) :
                is_asset_planned_for_run(latest[parent].run_id, child)

\* the roots of the selection with the partitions the root detector goes
\* through at evaluation_time: every partition of a static definition, the
\* partitions in the allowable window of a time-window definition
RootAssetPartitions(evaluation_time) ==
    UNION {IF ~is_partitioned(asset_key)
           THEN {AssetKeyPartitionKey(asset_key, NoPartition)}
           ELSE LET partitions_def == get_partitions_def(asset_key)
                    allowable_time_window ==
                        allowable_time_window_for_partitions_def(
                            partitions_def, evaluation_time)
                IN  {AssetKeyPartitionKey(asset_key, partition_key) :
                        partition_key \in
                            IF partitions_def.kind # "time"
                            THEN get_partition_keys(partitions_def, evaluation_time)
                            ELSE IF allowable_time_window = NoTimeWindow THEN {}
                            ELSE get_partition_keys_in_time_window(
                                     partitions_def, allowable_time_window,
                                     evaluation_time)} :
           asset_key \in target_root_asset_keys}

\* the cursor has the root recorded as materialized or requested
SeenByCursor(cursor, asset_partition) ==
    IF asset_partition.partition_key = NoPartition
    THEN asset_partition.asset_key \in cursor.materialized_or_requested_root_asset_keys
    ELSE asset_partition.partition_key \in
             GetOrEmpty(cursor.materialized_or_requested_root_partitions_by_asset_key,
                        asset_partition.asset_key)

\* the detector has returned the root as newly materialized
ReturnedAsNewlyMaterialized(found, asset_partition) ==
    IF asset_partition.partition_key = NoPartition
    THEN asset_partition.asset_key \in found[2]
    ELSE asset_partition.partition_key \in GetOrEmpty(found[3], asset_partition.asset_key)

\* C26: the root detector puts every root of the selection that the cursor
\* has not recorded in exactly one of two results: newly materialized when
\* the event log has a record of it, and then the updated cursor records it
\* and it is no candidate; never materialized or requested when the log has
\* none.  A root the cursor has recorded is in neither, and the detector
\* returns nothing else.
C26_root_detector_classifies ==
    (tick.ran /\ ~tick.error) =>
        LET found == find_never_materialized_or_requested_root_asset_partitions(
                         tick.cursor, tick.evaluation_time)
            roots == RootAssetPartitions(tick.evaluation_time)
        IN  /\ tick.never_materialized_or_requested_roots = found[1]
            /\ found[1] \subseteq roots
            /\ found[2] \subseteq {ap.asset_key : ap \in roots}
            /\ \A k \in DOMAIN found[3] :
                  \A partition_key \in found[3][k] :
                      AssetKeyPartitionKey(k, partition_key) \in roots
            /\ \A ap \in roots :
                  IF SeenByCursor(tick.cursor, ap)
                  THEN ap \notin found[1] /\ ~ReturnedAsNewlyMaterialized(found, ap)
                  ELSE IF get_latest_materialization_record(ap, NoStorageId) # NoRecord
                  THEN /\ ReturnedAsNewlyMaterialized(found, ap)
                       /\ ap \notin found[1]
                       /\ SeenByCursor(tick.updated_cursor, ap)
                  ELSE ap \in found[1] /\ ~ReturnedAsNewlyMaterialized(found, ap)

\* a tick has met a root partition that was materialized since the cursor
\* was written and another that never was
C26_witness ==
    /\ tick.ran /\ ~tick.error
    /\ LET found == find_never_materialized_or_requested_root_asset_partitions(
                        tick.cursor, tick.evaluation_time)
           roots == RootAssetPartitions(tick.evaluation_time)
       IN  /\ \E ap \in roots : ReturnedAsNewlyMaterialized(found, ap)
           /\ found[1] # {}

\* a tick has met a root partition the cursor had recorded, materialized
\* in the event log
C26_witness_seen ==
    /\ tick.ran /\ ~tick.error
    /\ \E ap \in RootAssetPartitions(tick.evaluation_time) :
          /\ SeenByCursor(tick.cursor, ap)
          /\ get_latest_materialization_record(ap, NoStorageId) # NoRecord

\* the partition keys with which the run requests of the tick select the
\* asset
RequestedPartitionKeys(asset_key) ==
    {rr.partition_key : rr \in {x \in tick.run_requests : asset_key \in x.asset_selection}}

\* C27: the cursor a tick writes records as roots the roots of the cursor it
\* read, the newly materialized root keys and the requested unpartitioned
\* assets without parents that are not sources; for every partitioned root
\* it records the partitions of the old cursor, the newly materialized and
\* the requested ones; it records no asset with a parent that is not a
\* source, and nothing the old cursor had recorded is lost.
C27_updated_cursor_is_union ==
    (tick.ran /\ ~tick.error) =>
        LET found == find_never_materialized_or_requested_root_asset_partitions(
                         tick.cursor, tick.evaluation_time)
            old_partitions == tick.cursor.materialized_or_requested_root_partitions_by_asset_key
            new_partitions ==
                tick.updated_cursor.materialized_or_requested_root_partitions_by_asset_key
        IN  /\ tick.updated_cursor.materialized_or_requested_root_asset_keys
                 = tick.cursor.materialized_or_requested_root_asset_keys
                   \cup found[2]
                   \cup {k \in asset_graph.keys :
                            /\ ~is_partitioned(k) /\ ~has_non_source_parents(k)
                            /\ RequestedPartitionKeys(k) # {}}
            /\ \A k \in asset_graph.keys :
                  GetOrEmpty(new_partitions, k)
                      = IF is_partitioned(k) /\ ~has_non_source_parents(k)
                        THEN GetOrEmpty(old_partitions, k)
                             \cup GetOrEmpty(found[3], k)
                             \cup RequestedPartitionKeys(k)
                        ELSE {}
            /\ DOMAIN new_partitions \subseteq asset_graph.keys
            /\ tick.cursor.materialized_or_requested_root_asset_keys
                   \subseteq tick.updated_cursor.materialized_or_requested_root_asset_keys
            /\ \A k \in DOMAIN old_partitions :
                  old_partitions[k] \subseteq GetOrEmpty(new_partitions, k)

\* a tick has added partitions to a subset of the cursor that was not empty
C27_witness ==
    /\ tick.ran /\ ~tick.error
    /\ \E k \in DOMAIN tick.cursor.materialized_or_requested_root_partitions_by_asset_key :
          /\ tick.cursor.materialized_or_requested_root_partitions_by_asset_key[k] # {}
          /\ tick.cursor.materialized_or_requested_root_partitions_by_asset_key[k]
                # tick.updated_cursor.materialized_or_requested_root_partitions_by_asset_key[k]

\* a tick has read a cursor with roots recorded and has requested an asset
\* with a parent that is not a source
C27_witness_not_recorded ==
    /\ tick.ran /\ ~tick.error
    /\ tick.cursor.materialized_or_requested_root_asset_keys # {}
    /\ \E rr \in tick.run_requests :
          \E k \in rr.asset_selection : has_non_source_parents(k)

\* C28: with_updates leaves the cursor it is called on as it was, whether
\* it returns the updated cursor or its check of the storage ids fails.
C28_with_updates_leaves_receiver ==
    call.fn = "with_updates" => call.receiver = call.cursor

\* with_updates has assigned partitions of requested roots to the mapping
\* of its result and then failed its check
C28_witness ==
    /\ call.fn = "with_updates"
    /\ call.result = CheckError
    /\ call.assigned # call.cursor.materialized_or_requested_root_partitions_by_asset_key

\* with_updates has returned a cursor with other roots and partitions than
\* its receiver
C28_witness_returned ==
    /\ call.fn = "with_updates"
    /\ call.result # CheckError
    /\ call.assigned # call.cursor.materialized_or_requested_root_partitions_by_asset_key
    /\ call.result.materialized_or_requested_root_asset_keys
          # call.cursor.materialized_or_requested_root_asset_keys

\* the units the closure of the tick has met: the seeds of the two
\* detectors and the children of the units it has accepted
UnitsMetByClosure ==
    tick.never_materialized_or_requested_roots \cup tick.stale_candidates
    \cup UNION {get_children_partitions(unit.asset_key, unit.partition_key) :
                  unit \in tick.to_reconcile}

\* C29: no unit that determine_asset_partitions_to_reconcile returns, seed
\* or not, is in the eventual set of the freshness scheduler, has its key
\* outside the target selection, or is a partition of a time-window
\* definition outside the allowable window of the tick.
C29_closure_exclusions ==
    (tick.ran /\ ~tick.error) =>
        \A unit \in tick.to_reconcile :
            /\ unit \notin tick.eventual_for_freshness
            /\ unit.asset_key \in target_asset_keys
            /\ candidates_unit_within_allowable_time_window({unit}, tick.evaluation_time)

\* the closure of a tick has met a unit of the freshness scheduler's
\* eventual set
C29_witness ==
    /\ tick.ran /\ ~tick.error
    /\ UnitsMetByClosure \cap tick.eventual_for_freshness # {}

\* the closure of a tick has met a unit with its key outside the selection
C29_witness_selection ==
    /\ tick.ran /\ ~tick.error
    /\ \E unit \in UnitsMetByClosure : unit.asset_key \notin target_asset_keys

\* the closure of a tick has met a partition outside the allowable window
C29_witness_window ==
    /\ tick.ran /\ ~tick.error
    /\ \E unit \in UnitsMetByClosure :
          ~candidates_unit_within_allowable_time_window({unit}, tick.evaluation_time)

\* the target subsets of the asset backfills of the store with the status:
\* with another status than REQUESTED a backfill is not among them
TargetsOfAssetBackfills(status) ==
    UNION {backfills[i].target_subset :
              i \in {j \in DOMAIN backfills :
                        backfills[j].is_asset_backfill /\ backfills[j].status = status}}

\* C30: the exclusion set of a tick is the union of the target subsets of
\* the asset backfills that are REQUESTED when the tick runs, whatever the
\* event log and the runs say about their target units; the backfills of
\* any other status add nothing to it.
C30_exclusion_set_by_backfill_status ==
    tick.ran =>
        tick.backfill_target_asset_graph_subset = TargetsOfAssetBackfills("REQUESTED")

\* a tick has run with an asset backfill REQUESTED all of whose target units
\* are materialized, while no run is in progress
C30_witness ==
    /\ tick.ran
    /\ tick.backfill_target_asset_graph_subset # {}
    /\ \A ap \in tick.backfill_target_asset_graph_subset :
          get_latest_materialization_record(ap, NoStorageId) # NoRecord
    /\ \A run_id \in DOMAIN runs : runs[run_id].status # "STARTED"

\* what is left to the closure: the units in its queue and the units it
\* has never enqueued
ClosureMeasure(bfs) ==
    Cardinality(bfs.queue) + Cardinality(AllAssetPartitions \ bfs.all_nodes)

\* C31: every step of the closure keeps the units it has accepted so far,
\* evaluates the predicate once and leaves strictly less to do, so that the
\* closure evaluates the predicate at most once for each unit of the graph.
C31_closure_monotone_and_finite ==
    [][(call.fn = "bfs_filter_asset_partitions"
        /\ call'.fn = "bfs_filter_asset_partitions") =>
           /\ call.result \subseteq call'.result
           /\ call'.evaluations = call.evaluations + 1
           /\ ClosureMeasure(call') < ClosureMeasure(call)
           /\ call'.evaluations <= Cardinality(AllAssetPartitions)]_vars

\* a closure has emptied its queue after accepting a seed, then a child of
\* it, and rejecting another unit
C31_witness ==
    /\ call.fn = "bfs_filter_asset_partitions"
    /\ call.queue = {}
    /\ call.result \ call.seeds # {}
    /\ call.rejected # {}

\* the closure, step by step and in any order among the units of a level,
\* returns what the operator returns
ClosureAgreesWithOperator ==
    (call.fn = "bfs_filter_asset_partitions" /\ call.queue = {}) =>
        call.result = bfs_filter_asset_partitions(
                          call.seeds, call.seeds, {}, call.eventual,
                          get_active_backfill_target_asset_graph_subset,
                          call.evaluation_time)

\* the required multi-asset neighbours of an asset partition, itself included
RequiredNeighbours(asset_partition) ==
    {AssetKeyPartitionKey(k, asset_partition.partition_key) :
        k \in get_required_multi_asset_keys(asset_partition.asset_key)}

\* asset_partitions holds every unit whole, and every unit is in one run
\* request of the tick
SelectedAsGroups(asset_partitions) ==
    \A asset_partition \in asset_partitions :
        /\ RequiredNeighbours(asset_partition) \subseteq asset_partitions
        /\ \E run_request \in tick.run_requests :
              /\ run_request.partition_key = asset_partition.partition_key
              /\ {ap.asset_key : ap \in RequiredNeighbours(asset_partition)}
                     \cup {asset_partition.asset_key}
                  \subseteq run_request.asset_selection

\* C32: whenever a tick selects an asset, by the closure or by the freshness
\* pass, it selects every asset of its required multi-asset set with it, and
\* all of them are in the same run request; the closure takes or leaves the
\* set as a whole.
C32_atomic_groups ==
    (tick.ran /\ ~tick.error) =>
        /\ SelectedAsGroups(tick.to_reconcile)
        /\ SelectedAsGroups(tick.to_reconcile_for_freshness)

\* the closure has accepted the two outputs of a multi-asset after their
\* parent was materialized, and one run request holds both
C32_witness ==
    /\ tick.ran /\ ~tick.error
    /\ \E asset_partition \in tick.to_reconcile :
          /\ RequiredNeighbours(asset_partition) \ {asset_partition} # {}
          /\ \E run_request \in tick.run_requests :
                Cardinality(run_request.asset_selection) = 2

\* the freshness pass has selected an output of a multi-asset and added the
\* other output
C32_witness_freshness ==
    /\ tick.ran /\ ~tick.error
    /\ \E asset_partition \in tick.to_reconcile_for_freshness :
          RequiredNeighbours(asset_partition) \ {asset_partition} # {}

\* the closure has left both outputs of a multi-asset whose parent was
\* materialized, because one of them is the target of a backfill
C32_witness_rejected ==
    /\ tick.ran /\ ~tick.error
    /\ \E asset_partition \in tick.stale_candidates :
          /\ asset_partition \notin tick.backfill_target_asset_graph_subset
          /\ RequiredNeighbours(asset_partition)
                 \cap tick.backfill_target_asset_graph_subset # {}
          /\ RequiredNeighbours(asset_partition) \cap tick.to_reconcile = {}

\* C38: every asset key of every run request of a tick is in the resolved
\* target selection of the sensor, the required multi-asset neighbours that
\* the freshness pass adds included.
C38_run_requests_within_selection ==
    (tick.ran /\ ~tick.error) =>
        \A run_request \in tick.run_requests :
            run_request.asset_selection \subseteq target_asset_keys

\* tk is a tick of the cron schedule of the policy
IsCronTick(freshness_policy, tk) ==
    (tk - freshness_policy.cron_offset) % freshness_policy.cron_period = 0

\* the first tick at or after evaluation_time that requires data after the
\* effective data time; there is one within a cron period of the later of
\* the evaluation time and the first instant that requires such data
FirstRequiringTick(freshness_policy, effective_data_time, evaluation_time) ==
    LET requires(tk) ==
            /\ IsCronTick(freshness_policy, tk)
            /\ tk - freshness_policy.maximum_lag > effective_data_time
        horizon ==
            Max2(evaluation_time,
                 effective_data_time + freshness_policy.maximum_lag + 1)
            + freshness_policy.cron_period
    IN  CHOOSE tk \in evaluation_time .. horizon :
            /\ requires(tk)
            /\ \A earlier \in evaluation_time .. (tk - 1) : ~requires(earlier)

\* C33: get_execution_period_for_policy returns [now, now] without an
\* effective data time; with a cron schedule [tick - maximum lag, tick) for
\* the first tick at or after now whose required data time is after the
\* effective data time; without one [effective data time + 0.9 maximum lag,
\* max(effective data time + maximum lag, now)); the period never ends
\* before it starts.
C33_execution_period_for_policy ==
    call.fn = "get_execution_period_for_policy" =>
        LET freshness_policy == call.freshness_policy
            effective_data_time == call.effective_data_time
            evaluation_time == call.evaluation_time
            tk == FirstRequiringTick(freshness_policy, effective_data_time,
                                     evaluation_time)
        IN  /\ effective_data_time = NoTime
                  => call.result = Period(evaluation_time, evaluation_time)
            /\ (effective_data_time # NoTime /\ freshness_policy.cron_period # 0)
                  => call.result = Period(tk - freshness_policy.maximum_lag, tk)
            /\ (effective_data_time # NoTime /\ freshness_policy.cron_period = 0)
                  => /\ 10 * call.result.start
                          = 10 * effective_data_time
                            + 9 * freshness_policy.maximum_lag
                     /\ call.result.end
                          = Max2(effective_data_time + freshness_policy.maximum_lag,
                                 evaluation_time)
            /\ call.result.start <= call.result.end

\* the walk has passed the first tick of the schedule, which the effective
\* data time satisfies already, and has returned the tick after it
C33_witness ==
    /\ call.fn = "get_execution_period_for_policy"
    /\ call.effective_data_time # NoTime
    /\ call.freshness_policy.cron_period # 0
    /\ call.result.end
          = NextCronTick(call.freshness_policy, call.evaluation_time)
            + call.freshness_policy.cron_period

\* a period without cron schedule that ends at the evaluation time
C33_witness_without_cron ==
    /\ call.fn = "get_execution_period_for_policy"
    /\ call.effective_data_time # NoTime
    /\ call.freshness_policy.cron_period = 0
    /\ call.result.start < call.result.end

\* the orders in which sorted(..., key=period.end) can return the periods
EndSortedOrders(periods) ==
    {order \in [1 .. Cardinality(periods) -> periods] :
        /\ \A i, j \in DOMAIN order : i # j => order[i] # order[j]
        /\ \A i, j \in DOMAIN order : i < j => order[i].end <= order[j].end}

\* the greedy fold over the periods order[i], order[i + 1], ...
RECURSIVE GreedyFoldFrom(_, _, _)
GreedyFoldFrom(order, i, accumulator) ==
    IF i > Len(order) THEN accumulator
    ELSE IF order[i].start <= accumulator.end
    THEN GreedyFoldFrom(order, i + 1,
                        Period(Max2(accumulator.start, order[i].start),
                               order[i].end))
    ELSE accumulator

\* the calls of get_execution_period_for_policies
IsMergeCall ==
    call.fn \in {"get_execution_period_for_policies", "merged_period"}

\* C34: get_execution_period_for_policies returns none for no policy;
\* otherwise it folds the periods of the policies, sorted by end ascending:
\* a period that starts at or before the end of the accumulator replaces it
\* by [max of the starts, end of the period), the first period that starts
\* after the end of the accumulator stops the fold; the result never ends
\* before it starts.
C34_merged_period_is_greedy_fold ==
    IsMergeCall =>
        /\ call.periods = {} => call.result = NoPeriod
        /\ call.periods # {} =>
              /\ \E order \in EndSortedOrders(call.periods) :
                    call.result = GreedyFoldFrom(order, 2, order[1])
              /\ call.result.start <= call.result.end

\* the fold has stopped at a period that starts after the accumulator ends
\* and has left out a later period that starts before the accumulator ends
C34_witness ==
    /\ IsMergeCall
    /\ \E p1 \in call.periods, p2 \in call.periods, p3 \in call.periods :
          /\ call.result = p1
          /\ p1.end < p2.start /\ p2.end < p3.end
          /\ p3.start <= p1.end

\* no policy, no period
C34_witness_none ==
    IsMergeCall /\ call.periods = {} /\ call.result = NoPeriod

\* two periods end at the same tick, and the fold returns one period when
\* sorted yields the one first and another when it yields the other first
C34_witness_order_of_equal_ends ==
    /\ IsMergeCall
    /\ call.periods # {}
    /\ \E o1 \in EndSortedOrders(call.periods), o2 \in EndSortedOrders(call.periods) :
          GreedyFoldFrom(o1, 2, o1[1]) # GreedyFoldFrom(o2, 2, o2[1])

\* the freshness pass applied to the graph
IsFreshnessCall ==
    call.fn = "determine_asset_partitions_to_reconcile_for_freshness"

\* the expected data time of key: the minimum of the expected data times
\* the pass has recorded for its parents, the evaluation time without one
ExpectedDataTime(key) ==
    LET times == {call.expected_data_time_by_key[parent] :
                     parent \in {k \in get_parents(key) :
                                   /\ k \in DOMAIN call.expected_data_time_by_key
                                   /\ call.expected_data_time_by_key[k] # NoTime}}
    IN  IF times = {} THEN call.evaluation_time ELSE SetMin(times)

\* the merged execution period of key in the call
MergedPeriodOf(key) ==
    get_execution_period_for_policies(
        get_downstream_freshness_policies(key), call.data_time,
        call.evaluation_time)

HasPoliciesInSelection(key) ==
    /\ key \in target_asset_keys
    /\ get_downstream_freshness_policies(key) # {}

SelectedForFreshness(key) ==
    AssetKeyPartitionKey(key, NoPartition) \in call.to_materialize

\* a run of key at the evaluation time is within its merged period and
\* brings data at or after the start of the period
DueAndUseful(key) ==
    /\ MergedPeriodOf(key).start <= call.evaluation_time
    /\ ExpectedDataTime(key) >= MergedPeriodOf(key).start

\* C35: the freshness pass selects an asset exactly when the asset is in
\* the target selection, has downstream freshness policies, its merged
\* execution period starts at or before the evaluation time and its
\* expected data time (the minimum of the expected data times of its
\* parents, taken in topological order, or the evaluation time) is at or
\* after the start of the period, or when it is a required neighbour of
\* such an asset; the pass records that expected data time for a selected
\* asset and the current data time for any other.
C35_selected_when_due_and_useful ==
    IsFreshnessCall =>
        \A key \in asset_graph.keys :
            /\ SelectedForFreshness(key)
                  <=> \/ HasPoliciesInSelection(key) /\ DueAndUseful(key)
                      \/ \E other \in asset_graph.keys :
                            /\ key \in get_required_multi_asset_keys(other)
                            /\ HasPoliciesInSelection(other)
                            /\ DueAndUseful(other)
            /\ get_downstream_freshness_policies(key) # {}
                  => call.expected_data_time_by_key[key]
                        = IF SelectedForFreshness(key)
                          THEN ExpectedDataTime(key) ELSE call.data_time

\* the period of an asset with a policy has started, its parent outside
\* the selection has older data than the period requires, and the pass has
\* left the asset
C35_witness ==
    /\ IsFreshnessCall
    /\ \E key \in asset_graph.keys :
          /\ HasPoliciesInSelection(key)
          /\ MergedPeriodOf(key).start <= call.evaluation_time
          /\ ExpectedDataTime(key) < MergedPeriodOf(key).start
          /\ ~SelectedForFreshness(key)

\* the pass has selected a parent and its child, the child with the
\* expected data time of the parent
C35_witness_selected ==
    /\ IsFreshnessCall
    /\ call.data_time # NoTime
    /\ \E key \in asset_graph.keys :
          /\ get_parents(key) # {}
          /\ SelectedForFreshness(key)
          /\ ExpectedDataTime(key) = call.evaluation_time

\* C35 as the claim states it: an asset of the selection with downstream
\* policies is selected exactly when its merged period starts at or before
\* the evaluation time and its expected data time is earlier than the
\* start of the period.
C35_selected_when_behind ==
    IsFreshnessCall =>
        \A key \in asset_graph.keys :
            HasPoliciesInSelection(key) =>
                (SelectedForFreshness(key)
                    <=> /\ MergedPeriodOf(key).start <= call.evaluation_time
                        /\ ExpectedDataTime(key) < MergedPeriodOf(key).start)

\* C36: allowable_time_window_for_partitions_def returns none while the
\* partitions definition has no partition window at the evaluation time;
\* otherwise the window from the later of the start of the first window and
\* (start of the last window - 1 day + the smallest time unit) to the end of
\* the last window: the last partition window is inside it, and it does not
\* start before the first partition.
C36_allowable_window ==
    call.fn = "allowable_time_window_for_partitions_def" =>
        LET first == get_first_partition_window(call.partitions_def,
                                                call.evaluation_time)
            last == get_last_partition_window(call.partitions_def,
                                              call.evaluation_time)
        IN  /\ get_partition_keys(call.partitions_def, call.evaluation_time) = {}
                  <=> call.result = NoTimeWindow
            /\ call.result # NoTimeWindow =>
                  /\ call.result.start
                        = SetMax({first.start, last.start - Day + Resolution})
                  /\ call.result.end = last.end
                  /\ call.result.start <= last.start
                  /\ last.end <= call.result.end
                  /\ first.start <= call.result.start

\* the definition has partitions for less than a day: the window starts
\* with the first partition
C36_witness ==
    /\ call.fn = "allowable_time_window_for_partitions_def"
    /\ call.result # NoTimeWindow
    /\ LET first == get_first_partition_window(call.partitions_def,
                                               call.evaluation_time)
           last == get_last_partition_window(call.partitions_def,
                                             call.evaluation_time)
       IN  /\ call.result.start = first.start
           /\ last.start - Day + Resolution < first.start
           /\ first # last

\* the window starts within the partitions, a day less a time unit before
\* the last one
C36_witness_day_back ==
    /\ call.fn = "allowable_time_window_for_partitions_def"
    /\ call.result # NoTimeWindow
    /\ call.result.start
          > get_first_partition_window(call.partitions_def,
                                       call.evaluation_time).start

\* no partition window yet, no allowable window
C36_witness_none ==
    /\ call.fn = "allowable_time_window_for_partitions_def"
    /\ call.result = NoTimeWindow

\* the detector with the default can_reconcile_fn, which accepts every
\* candidate
ChildrenOfPartitionsAcceptingAll(asset_key, partition_keys, latest_storage_id) ==
    UNION {
        {child \in get_children_partitions(asset_key, partition_key) :
            /\ child.asset_key \in target_asset_keys
            /\ \/ partition_key # child.partition_key
               \/ ~is_asset_planned_for_run(
                      get_latest_materialization_record(
                          AssetKeyPartitionKey(asset_key, partition_key),
                          latest_storage_id).run_id,
                      child)} :
        partition_key \in partition_keys}

find_parent_materialized_asset_partitions_accepting_all(latest_storage_id) ==
    LET latest_record(asset_key) ==
            get_latest_materialization_record(
                AssetKeyPartitionKey(asset_key, NoPartition), latest_storage_id)
        scanned == {asset_key \in target_parent_asset_keys :
                      ~is_source(asset_key) /\ latest_record(asset_key) # NoRecord}
    IN  <<UNION {ChildrenNotPlannedInRun(asset_key, latest_record(asset_key))
                 \cup (IF is_partitioned(asset_key)
                       THEN ChildrenOfPartitionsAcceptingAll(
                                asset_key,
                                get_materialized_partitions(asset_key, latest_storage_id),
                                latest_storage_id)
                       ELSE {}) :
                 asset_key \in scanned},
          SetMax({latest_storage_id}
                 \cup {latest_record(asset_key).storage_id : asset_key \in scanned})>>

\* what determine_asset_partitions_to_reconcile returns in the last tick
\* when its detector accepts every candidate
ClosureAcceptingAll ==
    ReconcileClosure(
        find_never_materialized_or_requested_root_asset_partitions(
            tick.cursor, tick.evaluation_time),
        find_parent_materialized_asset_partitions_accepting_all(
            tick.cursor.latest_storage_id),
        tick.eventual_for_freshness, tick.backfill_target_asset_graph_subset,
        tick.evaluation_time)

\* C37: the set determine_asset_partitions_to_reconcile returns and the
\* watermark are those it returns when the propagation detector accepts
\* every candidate instead of filtering by can_reconcile_fn: the closure
\* rejects every child the filter drops.
C37_filter_is_an_optimisation ==
    (tick.ran /\ ~tick.error) =>
        /\ ClosureAcceptingAll.to_reconcile = tick.to_reconcile
        /\ ClosureAcceptingAll.latest_storage_id
              = tick.updated_cursor.latest_storage_id

\* the filter has dropped a child of a partition materialized since the
\* watermark
C37_witness ==
    /\ tick.ran /\ ~tick.error
    /\ ClosureAcceptingAll.stale_candidates \ tick.stale_candidates # {}

\* the last step was a tick that has returned no run request
QuietTick == tick.ran /\ ~tick.error /\ tick.run_requests = {}

\* the runs that were there before the last tick
RunsBeforeTick == 1 .. (Len(runs) - Cardinality(tick.run_requests))

\* run_id has planned the asset partition and a parent of it, and no
\* parent partition of it has been materialized by anything but run_id
PlannedWithParentsIn(run_id, asset_partition) ==
    /\ runs[run_id].partition_key = asset_partition.partition_key
    /\ asset_partition.asset_key \in runs[run_id].asset_selection
    /\ get_parents(asset_partition.asset_key) \cap runs[run_id].asset_selection # {}
    /\ \A parent \in get_parents_partitions(asset_partition.asset_key,
                                              asset_partition.partition_key) :
          \/ is_source(parent.asset_key)
          \/ parent \notin DOMAIN latest
          \/ latest[parent] = NoRecord
          \/ latest[parent].run_id = run_id

\* no tick requests an asset partition that an earlier run of the sensor
\* materializes together with its parents
NoChildRequestedAgain ==
    tick.ran =>
        \A run_request \in tick.run_requests :
            \A asset_key \in run_request.asset_selection :
                \A run_id \in RunsBeforeTick :
                    ~PlannedWithParentsIn(
                         run_id,
                         AssetKeyPartitionKey(asset_key, run_request.partition_key))

C39_witness_during_run ==
    /\ QuietTick
    /\ tick.cursor.latest_storage_id < tick.updated_cursor.latest_storage_id
    /\ \E run_id \in DOMAIN runs :
          /\ runs[run_id].status = "STARTED"
          /\ runs[run_id].materialized # {}

\* the backfill that was launched is in the store with this status
LaunchedBackfillIs(status) ==
    IF call = NoCall THEN FALSE ELSE backfills[call.backfill_id].status = status

\* the units of the launched backfill whose run has not ended
UnitsNotTerminal ==
    {u \in UnitsOfCall : call.unit_status[u] \notin TerminalRunStatuses}

\* the status query reports as numCancelable the number of units that are
\* not terminal, and right after the launch the number of partitions (of
\* units, for an asset backfill) of the target
NumCancelableIsUnitsNotTerminal ==
    call # NoCall =>
        LET queried == partitionBackfillOrError(backfills, call.unit_status,
                                                call.backfill_id)
            backfill == backfills[call.backfill_id]
        IN  /\ queried.numCancelable = Cardinality(UnitsNotTerminal)
            /\ call.last = "launch" =>
                   /\ queried.status = "REQUESTED"
                   /\ queried.numCancelable
                          = Cardinality(backfill.target_subset \cup backfill.partition_names)
                   /\ ~backfill.is_asset_backfill =>
                          queried.numCancelable = Cardinality(queried.partitionNames)

\* a backfill in CANCELING stays in CANCELING or becomes CANCELED
CancelingOnlyToCanceled ==
    LaunchedBackfillIs("CANCELING") =>
        (LaunchedBackfillIs("CANCELING") \/ LaunchedBackfillIs("CANCELED"))'

\* C40: with an executor that goes on with the units in flight and a driver
\* that goes on with a cancellation, a backfill in CANCELING comes to
\* CANCELED, whatever units were dispatched or left undispatched; no step
\* takes it from CANCELING to REQUESTED or to any status but CANCELED; and
\* the status query reports as numCancelable the number of target units
\* whose run is not terminal, which right after the launch is the number
\* of target partitions.
C40_cooperative_cancellation ==
    /\ LaunchedBackfillIs("CANCELING") ~> LaunchedBackfillIs("CANCELED")
    /\ [][CancelingOnlyToCanceled]_vars
    /\ []NumCancelableIsUnitsNotTerminal

\* a backfill was cancelled cooperatively: it is CANCELED after the
\* executor has cancelled one dispatched unit and let another finish, with
\* a unit that was never dispatched still counted as cancelable
C40_witness ==
    /\ LaunchedBackfillIs("CANCELED")
    /\ call.last = "finish_cancellation"
    /\ \E u \in UnitsOfCall : call.unit_status[u] = "CANCELED"
    /\ \E u \in UnitsOfCall : call.unit_status[u] \in {"SUCCESS", "FAILURE"}
    /\ Cardinality(UnitsNotTerminal) = 1

\* a backfill is in CANCELING with a unit in flight
C40_witness_in_flight ==
    /\ LaunchedBackfillIs("CANCELING")
    /\ \E u \in UnitsOfCall : call.unit_status[u] = "STARTED"

\* right after the launch of two partitions numCancelable is 2
C40_witness_after_launch ==
    /\ call # NoCall /\ call.last = "launch"
    /\ partitionBackfillOrError(backfills, call.unit_status,
                                call.backfill_id).numCancelable = 2

====
